---- MODULE Spec2Model ----
(***************************************************************************)
(* Wormhole rolling tracker / game (eve-rolling).                          *)
(*                                                                         *)
(* The model follows src/src/app.js (WormholeRollingUI, TrackerMode,       *)
(* GameMode) and src/src/wormhole-logic.js (Wormhole, Ship, CustomMass,    *)
(* Action).  One action of the model is one UI command run to completion,  *)
(* including the random event that a game action may cascade into.         *)
(* All masses are integers (Gg); every Math.round of the source is applied *)
(* to a value with at most one decimal, which Round models exactly.        *)
(***************************************************************************)
EXTENDS Integers, Sequences, FiniteSets, TLC

(***************************************************************************)
(* Bounds of the exploration (not program constants).                      *)
(***************************************************************************)
MaxSessions == 1
MaxActions == 2
MaxStaged == 2
MaxCommits == 2
MaxFleet == 1
MaxRestarts == 2

(***************************************************************************)
(* Reference data.                                                         *)
(***************************************************************************)
\* the ship table of wormhole-logic.js, with the two destroyer-class ships
\* (dictor, covops) that the test-suite reads from the same table
SHIP_TYPES ==
  [rbs      |-> [cold |-> 200,  hot |-> 300],
   rhic     |-> [cold |-> 1,    hot |-> 65],
   carrier  |-> [cold |-> 1250, hot |-> 1750],
   bs       |-> [cold |-> 100,  hot |-> 150],
   marauder |-> [cold |-> 160,  hot |-> 210],
   cruiser  |-> [cold |-> 13,   hot |-> 63],
   dictor   |-> [cold |-> 1,    hot |-> 2],
   covops   |-> [cold |-> 1,    hot |-> 2]]

ShipKeys == DOMAIN SHIP_TYPES

\* SHIP_TYPES[k].size: size class of each ship type (1 destroyer .. 5 capital)
ShipSize ==
  [rbs |-> 3, rhic |-> 2, carrier |-> 5, bs |-> 3, marauder |-> 3, cruiser |-> 2,
   dictor |-> 1, covops |-> 1]

WORMHOLE_MASS_TYPES == {100, 500, 750, 1000, 2000, 3000, 3300, 5000}

\* keys of WORMHOLE_RESTRICTIONS / RESTRICTION_LEVELS
WORMHOLE_RESTRICTIONS == 1..5

\* the states offered as a starting state ('gone' is excluded)
InitialWhStates == {"fresh", "stable", "destab", "critical"}

WORMHOLE_STATES == InitialWhStates \cup {"gone"}

\* Math.round(n / d) for n >= 0, d > 0 (halves round up)
Round(n, d) == (2 * n + d) \div (2 * d)

Max2(a, b) == IF a >= b THEN a ELSE b
Min2(a, b) == IF a <= b THEN a ELSE b

(***************************************************************************)
(* class Wormhole                                                          *)
(***************************************************************************)
\* Math.round(baseMass * (1 - 0.1))
getMinMass(baseMass) == Round(baseMass * 9, 10)

\* Math.round(baseMass * (1 + 0.1))
getMaxMass(baseMass) == Round(baseMass * 11, 10)

\* the display range with an empty interval at 0 for gone
getCurrentMassRangeGoneZero(baseMass, state) ==
  LET minBase == getMinMass(baseMass)
      maxBase == getMaxMass(baseMass)
  IN  CASE state = "fresh"    -> [min |-> minBase, max |-> maxBase]
        [] state = "stable"   -> [min |-> Round(minBase * 5, 10), max |-> maxBase]
        [] state = "destab"   -> [min |-> Round(minBase, 10), max |-> Round(maxBase * 5, 10)]
        [] state = "critical" -> [min |-> 0, max |-> Round(maxBase, 10)]
        [] state = "gone"     -> [min |-> 0, max |-> 0]
        [] OTHER              -> [min |-> minBase, max |-> maxBase]

getCurrentMassRange(baseMass, state) ==
  LET minBase == getMinMass(baseMass)
      maxBase == getMaxMass(baseMass)
  IN  CASE state = "fresh"    -> [min |-> minBase, max |-> maxBase]
        [] state = "stable"   -> [min |-> Round(minBase * 5, 10), max |-> maxBase]
        [] state = "destab"   -> [min |-> Round(minBase, 10), max |-> Round(maxBase * 5, 10)]
        [] state = "critical" -> [min |-> 0, max |-> Round(maxBase, 10)]
        [] state = "gone"     -> [min |-> -5000, max |-> 0]
        [] OTHER              -> [min |-> minBase, max |-> maxBase]

\* the boundaries with the whole minimum capacity as the destab minimum
getStateBoundariesDestabFullMin(baseMass, state) ==
  LET minBase == getMinMass(baseMass)
      maxBase == getMaxMass(baseMass)
  IN  CASE state = "fresh"    -> [min |-> Round(minBase * 5, 10), max |-> maxBase]
        [] state = "stable"   -> [min |-> Round(minBase * 5, 10), max |-> maxBase]
        [] state = "destab"   -> [min |-> minBase, max |-> Round(maxBase * 5, 10)]
        [] state = "critical" -> [min |-> 0, max |-> Round(maxBase, 10)]
        [] state = "gone"     -> [min |-> -5000, max |-> 0]
        [] OTHER              -> [min |-> Round(minBase * 5, 10), max |-> maxBase]

\* the boundaries with the unrestricted range for fresh
getStateBoundariesFreshFull(baseMass, state) ==
  LET minBase == getMinMass(baseMass)
      maxBase == getMaxMass(baseMass)
  IN  CASE state = "fresh"    -> [min |-> minBase, max |-> maxBase]
        [] state = "stable"   -> [min |-> Round(minBase * 5, 10), max |-> maxBase]
        [] state = "destab"   -> [min |-> Round(minBase, 10), max |-> Round(maxBase * 5, 10)]
        [] state = "critical" -> [min |-> 0, max |-> Round(maxBase, 10)]
        [] state = "gone"     -> [min |-> -5000, max |-> 0]
        [] OTHER              -> [min |-> Round(minBase * 5, 10), max |-> maxBase]

\* the boundaries with a tenth of the destab minimum as the critical minimum
getStateBoundariesCriticalFloor(baseMass, state) ==
  LET minBase == getMinMass(baseMass)
      maxBase == getMaxMass(baseMass)
  IN  CASE state = "fresh"    -> [min |-> Round(minBase * 5, 10), max |-> maxBase]
        [] state = "stable"   -> [min |-> Round(minBase * 5, 10), max |-> maxBase]
        [] state = "destab"   -> [min |-> Round(minBase, 10), max |-> Round(maxBase * 5, 10)]
        [] state = "critical" -> [min |-> Round(minBase, 100), max |-> Round(maxBase, 10)]
        [] state = "gone"     -> [min |-> -5000, max |-> 0]
        [] OTHER              -> [min |-> Round(minBase * 5, 10), max |-> maxBase]

\* the boundaries with no case for gone, which then takes the default
getStateBoundariesNoGone(baseMass, state) ==
  LET minBase == getMinMass(baseMass)
      maxBase == getMaxMass(baseMass)
  IN  CASE state = "destab"   -> [min |-> Round(minBase, 10), max |-> Round(maxBase * 5, 10)]
        [] state = "critical" -> [min |-> 0, max |-> Round(maxBase, 10)]
        [] OTHER              -> [min |-> Round(minBase * 5, 10), max |-> maxBase]

getStateBoundaries(baseMass, state) ==
  LET minBase == getMinMass(baseMass)
      maxBase == getMaxMass(baseMass)
  IN  CASE state = "fresh"    -> [min |-> Round(minBase * 5, 10), max |-> maxBase]
        [] state = "stable"   -> [min |-> Round(minBase * 5, 10), max |-> maxBase]
        [] state = "destab"   -> [min |-> Round(minBase, 10), max |-> Round(maxBase * 5, 10)]
        [] state = "critical" -> [min |-> 0, max |-> Round(maxBase, 10)]
        [] state = "gone"     -> [min |-> -5000, max |-> 0]
        [] OTHER              -> [min |-> Round(minBase * 5, 10), max |-> maxBase]

(***************************************************************************)
(* class Ship / class CustomMass.  A ship is [type, mode, mass]: a typed   *)
(* ship has mode cold/unknown/hot and mass 0; a CustomMass has type        *)
(* "none" (it has no .type), mode "custom" and its scalar mass.            *)
(***************************************************************************)
Ship(type, mode) == [type |-> type, mode |-> mode, mass |-> 0]

CustomMass(mass) == [type |-> "none", mode |-> "custom", mass |-> mass]

\* the mass of a ship of unknown mode taken as its hot mass
getMassUnknownAsHot(ship) ==
  IF ship.mode = "custom" THEN [min |-> ship.mass, max |-> ship.mass]
  ELSE IF ship.mode = "cold"
       THEN [min |-> SHIP_TYPES[ship.type].cold, max |-> SHIP_TYPES[ship.type].cold]
       ELSE [min |-> SHIP_TYPES[ship.type].hot, max |-> SHIP_TYPES[ship.type].hot]

\* Ship.getMass() / CustomMass.getMass()
getMass(ship) ==
  IF ship.mode = "custom" THEN [min |-> ship.mass, max |-> ship.mass]
  ELSE IF ship.mode = "unknown"
       THEN [min |-> SHIP_TYPES[ship.type].cold, max |-> SHIP_TYPES[ship.type].hot]
       ELSE IF ship.mode = "cold"
            THEN [min |-> SHIP_TYPES[ship.type].cold, max |-> SHIP_TYPES[ship.type].cold]
            ELSE [min |-> SHIP_TYPES[ship.type].hot, max |-> SHIP_TYPES[ship.type].hot]

(***************************************************************************)
(* class Action                                                            *)
(***************************************************************************)
Action(ship, direction) == [ship |-> ship, direction |-> direction]

\* the clamp without the final lowering of min onto max
ClampWithoutReorder(mass, stateBoundaries) ==
  [min |-> Max2(mass.min, stateBoundaries.min),
   max |-> Min2(mass.max, stateBoundaries.max)]

\* the clamp to a state's boundaries (also written out in app.js wherever
\* a displayed interval is constrained)
ClampToBoundaries(mass, stateBoundaries) ==
  LET mn == Max2(mass.min, stateBoundaries.min)
      mx == Min2(mass.max, stateBoundaries.max)
  IN  [min |-> Min2(mn, mx), max |-> mx]

\* the subtraction with the ship's two masses crossed in the unknown branch
ApplyToMassRawCrossed(action, currentMass) ==
  LET shipMass == getMass(action.ship)
  IN  [min |-> Max2(0, currentMass.min - shipMass.min),
       max |-> Max2(0, currentMass.max - shipMass.max)]

\* the subtraction that takes an exact mass off the maximum only
ApplyToMassRawMaxOnly(action, currentMass) ==
  LET shipMass == getMass(action.ship)
  IN  IF shipMass.min = shipMass.max
      THEN [min |-> currentMass.min,
            max |-> Max2(currentMass.min, currentMass.max - shipMass.min)]
      ELSE [min |-> Max2(0, currentMass.min - shipMass.max),
            max |-> Max2(0, currentMass.max - shipMass.min)]

\* the subtraction without the floor at 0
ApplyToMassRawUnfloored(action, currentMass) ==
  LET shipMass == getMass(action.ship)
  IN  IF shipMass.min = shipMass.max
      THEN [min |-> currentMass.min - shipMass.min,
            max |-> currentMass.max - shipMass.min]
      ELSE [min |-> currentMass.min - shipMass.max,
            max |-> currentMass.max - shipMass.min]

\* applyToMass(currentMass, null): the raw subtraction
ApplyToMassRaw(action, currentMass) ==
  LET shipMass == getMass(action.ship)
  IN  IF shipMass.min = shipMass.max
      THEN [min |-> Max2(0, currentMass.min - shipMass.min),
            max |-> Max2(0, currentMass.max - shipMass.min)]
      ELSE [min |-> Max2(0, currentMass.min - shipMass.max),
            max |-> Max2(0, currentMass.max - shipMass.min)]

\* the call with a state that skips the boundary constraints
applyToMassUnclamped(action, currentMass, baseMass, state) ==
  ApplyToMassRaw(action, currentMass)

\* the call with a state that returns the part of the boundaries above the
\* raw minimum
applyToMassUpToBoundary(action, currentMass, baseMass, state) ==
  LET raw == ApplyToMassRaw(action, currentMass)
      sb == getStateBoundaries(baseMass, state)
  IN  [min |-> Min2(raw.min, sb.max), max |-> Max2(sb.max, 0)]

\* applyToMass(currentMass, wormholeState) with a Wormhole(baseMass, state)
applyToMass(action, currentMass, baseMass, state) ==
  ClampToBoundaries(ApplyToMassRaw(action, currentMass),
                    getStateBoundaries(baseMass, state))

(***************************************************************************)
(* RANDOM_EVENTS.  app.js reads event.name, event.probability,             *)
(* event.actions[i].shipType / .direction / .getMassImpact(); the two      *)
(* events app.js names are two cruiser jumps and two carrier jumps.        *)
(***************************************************************************)
RANDOM_EVENTS ==
  [neutral_cruiser_jump |->
     << [shipType |-> "cruiser", direction |-> "outgoing"],
        [shipType |-> "cruiser", direction |-> "incoming"] >>,
   neutral_carrier_jump |->
     << [shipType |-> "carrier", direction |-> "outgoing"],
        [shipType |-> "carrier", direction |-> "incoming"] >>]

EventNames == DOMAIN RANDOM_EVENTS

\* eventAction.getMassImpact(): the true mass of the event ship, one of its
\* cold and hot masses
MassImpacts(eventAction) ==
  {SHIP_TYPES[eventAction.shipType].cold, SHIP_TYPES[eventAction.shipType].hot}

(***************************************************************************)
(* State.                                                                  *)
(*  null numbers are 0, null strings are "null".                           *)
(***************************************************************************)
VARIABLES
  currentMode,          \* "tracker" | "game"            (ui.currentMode)
  isTracking,           \* ui.isTracking
  initialWhSize,        \* ui.initialWhSize     (0 = null)
  initialWhState,       \* ui.initialWhState    ("null" = null)
  initialWhRestriction, \* ui.initialWhRestriction (0 = null)
  initialFarSideFleet,  \* ui.initialFarSideFleet : ship key -> count
  currentWhState,       \* ui.currentWhState
  shipsOnFarSide,       \* ui.shipsOnFarSide : ship key -> count (0 = absent)
  stagedActions,        \* ui.stagedActions
  committedActions,     \* ui.committedActions (the ledger)
  remainingMass,        \* gameMode.remainingMass       (hidden)
  initialActualMass,    \* gameMode.initialActualMass   (hidden original capacity)
  randomEventOccurred,  \* gameMode.randomEventOccurred
  addActionRowShown,    \* #add-action-row is displayed
  applySectionShown,    \* .apply-section is displayed
  completion,           \* verdict of the completion section: "none" | "win" | "loss"
  lastRoll,             \* what the last event roll triggered / kept / executed / drew
  sessions,             \* number of sessions started so far
  call                  \* a direct call of a wormhole-logic.js function and its result

\* the fields of the application
uiVars == << currentMode, isTracking, initialWhSize, initialWhState,
             initialWhRestriction, initialFarSideFleet, currentWhState,
             shipsOnFarSide, stagedActions, committedActions, remainingMass,
             initialActualMass, randomEventOccurred, addActionRowShown,
             applySectionShown, completion, lastRoll, sessions >>

vars == << currentMode, isTracking, initialWhSize, initialWhState,
           initialWhRestriction, initialFarSideFleet, currentWhState,
           shipsOnFarSide, stagedActions, committedActions, remainingMass,
           initialActualMass, randomEventOccurred, addActionRowShown,
           applySectionShown, completion, lastRoll, sessions, call >>

NoFleet == [k \in ShipKeys |-> 0]

NoRoll ==
  [rolled |-> {}, triggered |-> {}, valid |-> {}, executed |-> "none",
   impacts |-> << >>]

\* no direct call is being made
NoCall ==
  [op |-> "none", baseMass |-> 0, state |-> "null",
   currentMass |-> [min |-> 0, max |-> 0],
   action |-> [ship |-> [type |-> "none", mode |-> "custom", mass |-> 0],
               direction |-> "B"],
   result |-> [min |-> 0, max |-> 0]]

\* new WormholeRollingUI(); ui.init()
\* the fields of the application after construction
InitialFields ==
  /\ currentMode = "tracker"
  /\ isTracking = FALSE
  /\ initialWhSize = 0
  /\ initialWhState = "null"
  /\ initialWhRestriction = 0
  /\ initialFarSideFleet = NoFleet
  /\ currentWhState = "null"
  /\ shipsOnFarSide = NoFleet
  /\ stagedActions = << >>
  /\ committedActions = << >>
  /\ remainingMass = 0
  /\ initialActualMass = 0
  /\ randomEventOccurred = FALSE
  /\ addActionRowShown = TRUE
  /\ applySectionShown = TRUE
  /\ completion = "none"
  /\ lastRoll = NoRoll
  /\ sessions = 0

Init ==
  /\ InitialFields
  /\ call = NoCall

(***************************************************************************)
(* Helpers of WormholeRollingUI                                            *)
(***************************************************************************)
RECURSIVE SumOver(_, _)
SumOver(f, keys) ==
  IF keys = {} THEN 0
  ELSE LET k == CHOOSE x \in keys : TRUE
       IN  f[k] + SumOver(f, keys \ {k})

\* Object.values(fleet).reduce((sum, count) => sum + count, 0)
FarSideCount(fleet) == SumOver(fleet, ShipKeys)

\* the display range recomputed from the initial setup alone
calculateInitialMass == getCurrentMassRange(initialWhSize, initialWhState)

\* calculateCurrentMass(): the finalMass of the last ledger entry, or the
\* display range of the initial state when nothing is committed
calculateCurrentMass ==
  IF Len(committedActions) = 0
  THEN getCurrentMassRange(initialWhSize, initialWhState)
  ELSE committedActions[Len(committedActions)].finalMass

\* the bookkeeping without the test for a ship type: a custom mass is
\* counted under one and the same key
TrackFarSideCustomCounted(far, action) ==
  LET k == IF action.ship.type = "none" THEN CHOOSE t \in DOMAIN far : TRUE
           ELSE action.ship.type
  IN  IF action.direction = "B"
      THEN [far EXCEPT ![k] = @ + 1]
      ELSE IF far[k] > 0 THEN [far EXCEPT ![k] = @ - 1] ELSE far

\* the bookkeeping with an inbound ship always taken off the count
TrackFarSideUnfloored(far, action) ==
  IF action.ship.type = "none" THEN far
  ELSE IF action.direction = "B"
       THEN [far EXCEPT ![action.ship.type] = @ + 1]
       ELSE [far EXCEPT ![action.ship.type] = @ - 1]

\* the far-side bookkeeping of one action (handleAddAction 92-106,
\* commitStagingToLog 1152-1166)
TrackFarSide(far, action) ==
  IF action.ship.type = "none" THEN far
  ELSE IF action.direction = "B"
       THEN [far EXCEPT ![action.ship.type] = @ + 1]
       ELSE IF far[action.ship.type] > 0
            THEN [far EXCEPT ![action.ship.type] = @ - 1]
            ELSE far

\* the count of the fleet seeded at setup instead of the current ledger
InitialFarSideCount(far, initialFleet) == FarSideCount(initialFleet)

\* handleWormholeCompletion(): the verdict it displays
VerdictFarSideCount(far, initialFleet) == FarSideCount(far)

\* a completion that leaves the action buttons on the screen
AddActionRowKeptShown(gone) == TRUE

\* handleWormholeCompletion(): the add-action row is hidden (1546-1552)
AddActionRowShownAfter(gone) == ~gone

\* a verdict read off the ledger as it was before the acting ships were counted
LedgerBeforeAction(before, after) == before

\* the ledger handleWormholeCompletion() reads: the acting ships are counted
\* (92-106, commitStagingToLog 1152-1166) before it is called (162-165,
\* 1103-1106)
LedgerAtVerdict(before, after) == after

handleWormholeCompletion(far, initialFleet) ==
  IF VerdictFarSideCount(far, initialFleet) > 0 THEN "loss" ELSE "win"

(***************************************************************************)
(* Ledger entries.  One record shape for the three kinds of entry:         *)
(*  "batch"  a tracker commit (commitStagingToLog),                        *)
(*  "action" a game player action (GameMode.handleAddAction),              *)
(*  "event"  a random event (processRandomEventAsAction).                  *)
(* passedMass2 / totalPassedMass2 are twice passedMass / totalPassedMass   *)
(* (the midpoint of an unknown ship may be a half).                        *)
(***************************************************************************)
Entry(type, actions, actualMassUsed, remaining, stateChange, state, finalMass, far) ==
  [type |-> type, actions |-> actions, actualMassUsed |-> actualMassUsed,
   remainingMass |-> remaining, stateChange |-> stateChange,
   currentState |-> state, finalMass |-> finalMass, shipsOnFarSide |-> far,
   passedMass2 |-> 0, totalPassedMass2 |-> 0,
   eventName |-> "none", actionsProcessed |-> 0, totalActions |-> 0]

(***************************************************************************)
(* class GameMode                                                          *)
(***************************************************************************)
\* a strict comparison at the thresholds
PercentBelow(remaining, initialActual, pct) ==
  remaining * 100 < pct * initialActual

\* percentRemaining <= pct, with percentRemaining =
\* (remainingMass / initialActualMass) * 100
PercentAtMost(remaining, initialActual, pct) ==
  remaining * 100 <= pct * initialActual

\* collapse reported as soon as at most 2% of the capacity is left
TargetStateGoneEarly(remaining, initialActual) ==
  IF remaining * 100 <= 2 * initialActual THEN "gone"
  ELSE IF remaining * 10 <= initialActual THEN "critical"
  ELSE IF remaining * 2 <= initialActual THEN "destab"
  ELSE "stable"

\* the state the hidden mass calls for (determineOutcome 203-214)
TargetState(remaining, initialActual) ==
  IF remaining <= 0 THEN "gone"
  ELSE IF PercentAtMost(remaining, initialActual, 10) THEN "critical"
  ELSE IF PercentAtMost(remaining, initialActual, 50) THEN "destab"
  ELSE "stable"

\* determineOutcome(): newState is "no-change" or the state entered, type is
\* the category of the message
determineOutcome(remaining, initialActual, currentState) ==
  LET targetState == TargetState(remaining, initialActual)
  IN  IF targetState = "gone"
      THEN [newState |-> "gone", type |-> "collapse"]
      ELSE IF targetState # currentState
           THEN [newState |-> targetState, type |-> targetState]
           ELSE [newState |-> "no-change", type |-> "success"]

\* initializeGame(): the least and the greatest value
\* Math.floor(originalWormholeMass * remainingPercent) can take, remainingPercent drawn from the band of the
\* initial state: fresh 1.0, stable [0.5, 1.0), destab [0.1, 0.5),
\* critical [0, 0.1)
RemainingLo(original, state) ==
  CASE state = "stable"   -> original \div 2
    [] state = "destab"   -> original \div 10
    [] state = "critical" -> 0
    [] OTHER              -> original

\* the greatest remaining mass when every initial state keeps the whole
\* capacity
RemainingHiWhole(original, state) == original

RemainingHi(original, state) ==
  CASE state = "stable"   -> original - 1
    [] state = "destab"   -> (original - 1) \div 2
    [] state = "critical" -> (original - 1) \div 10
    [] OTHER              -> original

(***************************************************************************)
(* Random events (WormholeRollingUI 731-938)                               *)
(***************************************************************************)
\* the roll without the cap of one event per game
checkForRandomEventsUncapped(mode, occurred, rolled) ==
  IF mode # "game" THEN {} ELSE rolled

\* checkForRandomEvents(): rolled is the set of events whose
\* Math.random() < probability came true
checkForRandomEvents(mode, occurred, rolled) ==
  IF mode # "game" THEN {}
  ELSE IF occurred THEN {}
  ELSE rolled

\* the triggered events without the restriction filter
UnfilteredEvents(randomEvents, currentRestriction) == randomEvents

\* the restriction filter of processRandomEventsAfterAction (760-769)
ValidEvents(randomEvents, currentRestriction) ==
  {e \in randomEvents :
     \A i \in 1..Len(RANDOM_EVENTS[e]) :
        ShipSize[RANDOM_EVENTS[e][i].shipType] <= currentRestriction}

\* createEventShip(eventAction)
createEventShip(eventAction) == Ship(eventAction.shipType, "unknown")

\* an iteration that debits and displays but leaves the state as it was
EventSubActionStateKept(eventAction, massImpact, st, baseSize, initialActual) ==
  LET action == Action(createEventShip(eventAction),
                       IF eventAction.direction = "outgoing" THEN "B" ELSE "A")
  IN  [rem |-> st.rem - massImpact,
       state |-> st.state,
       disp |-> applyToMass(action, st.disp, baseSize, st.state),
       processed |-> Append(st.processed, action),
       total |-> st.total + massImpact,
       change |-> st.change]

\* one iteration of the loop of processRandomEventAsAction (795-863) on the
\* loop state st = [rem, state, disp, processed, total, change]
EventSubAction(eventAction, massImpact, st, baseSize, initialActual) ==
  LET action == Action(createEventShip(eventAction),
                       IF eventAction.direction = "outgoing" THEN "B" ELSE "A")
      rem == st.rem - massImpact
      \* boundaries of the state before this sub-action's outcome
      disp == applyToMass(action, st.disp, baseSize, st.state)
      outcome == determineOutcome(rem, initialActual, st.state)
  IN  [rem |-> rem,
       state |-> IF outcome.newState # "no-change" THEN outcome.newState ELSE st.state,
       disp |-> disp,
       processed |-> Append(st.processed, action),
       total |-> st.total + massImpact,
       change |-> IF outcome.newState # "no-change" /\ st.change = "no-change"
                  THEN outcome.newState ELSE st.change]

RECURSIVE EventLoopNoBreak(_, _, _, _, _, _)
\* the loop without its two breaks on a collapsed wormhole
EventLoopNoBreak(actions, impacts, i, st, baseSize, initialActual) ==
  IF i > Len(actions) THEN st
  ELSE EventLoopNoBreak(actions, impacts, i + 1,
         EventSubAction(actions[i], impacts[i], st, baseSize, initialActual),
         baseSize, initialActual)

RECURSIVE EventLoop(_, _, _, _, _, _)
EventLoop(actions, impacts, i, st, baseSize, initialActual) ==
  IF i > Len(actions) \/ st.state = "gone" THEN st
  ELSE LET st2 == EventSubAction(actions[i], impacts[i], st, baseSize, initialActual)
       IN  IF st2.state = "gone" THEN st2
           ELSE EventLoop(actions, impacts, i + 1, st2, baseSize, initialActual)

\* processRandomEventAsAction(event): the ledger entry it appends
EventEntry(event, st, far) ==
  [Entry("event", st.processed, st.total, st.rem, st.change, st.state, st.disp, far)
     EXCEPT !.eventName = event,
            !.actionsProcessed = Len(st.processed),
            !.totalActions = Len(RANDOM_EVENTS[event])]

(***************************************************************************)
(* Inputs of the commands, drawn from small sets.                          *)
(***************************************************************************)
\* setupShipSelection(): the ship buttons that are not disabled
SelectableShips(restriction) == {k \in ShipKeys : ShipSize[k] <= restriction}

\* the moves made in the exploration: a direction button pressed with a ship
\* type and mass mode (or a custom mass) selected
MoveSample ==
  {[direction |-> "B", ship |-> Ship("covops", "cold")],
   [direction |-> "B", ship |-> Ship("bs", "unknown")],
   [direction |-> "A", ship |-> Ship("bs", "hot")],
   [direction |-> "A", ship |-> CustomMass(1200)]}

\* stageAction(): the moves whose ship button is enabled
Moves(restriction) ==
  {mv \in MoveSample : mv.ship.type = "none"
                         \/ mv.ship.type \in SelectableShips(restriction)}

\* the original capacities and remaining masses sampled at the start of a
\* game: both ends of the variance band, and the ends of the band of the
\* initial state together with the values next to its lower end
OriginalSample(baseSize) == {getMinMass(baseSize), getMaxMass(baseSize)}

RemainingSample(original, state) ==
  LET lo == RemainingLo(original, state)
      hi == RemainingHi(original, state)
  IN  {lo, hi} \cup {x \in {lo + 1, lo + 14} : x <= hi}

\* the ship types pre-seeded on the far side in the exploration
SeededShips == {"bs"}

PlayerEntries == {i \in 1..Len(committedActions) : committedActions[i].type = "action"}

BatchEntries == {i \in 1..Len(committedActions) : committedActions[i].type = "batch"}

EventEntries == {i \in 1..Len(committedActions) : committedActions[i].type = "event"}

(***************************************************************************)
(* Setup commands                                                          *)
(***************************************************************************)
\* updateFarSideQuantity(shipKey, action), from the setup screen
UpdateFarSideQuantity(shipKey, action) ==
  /\ ~isTracking
  /\ sessions < MaxSessions
  /\ IF action = "increase"
     THEN /\ initialFarSideFleet[shipKey] < MaxFleet
          /\ initialFarSideFleet' = [initialFarSideFleet EXCEPT ![shipKey] = @ + 1]
     ELSE /\ initialFarSideFleet[shipKey] > 0
          /\ initialFarSideFleet' =
               [initialFarSideFleet EXCEPT ![shipKey] = Max2(0, @ - 1)]
  /\ UNCHANGED << currentMode, isTracking, initialWhSize, initialWhState,
                  initialWhRestriction, currentWhState, shipsOnFarSide,
                  stagedActions, committedActions, remainingMass,
                  initialActualMass, randomEventOccurred, addActionRowShown,
                  applySectionShown, completion, lastRoll, sessions, call >>

\* a reset that leaves the far-side ledger of the session in place
ResetAllKeepsFarSide ==
  /\ committedActions' = << >>
  /\ stagedActions' = << >>
  /\ isTracking' = FALSE
  /\ initialWhSize' = 0
  /\ initialWhState' = "null"
  /\ initialWhRestriction' = 0
  /\ currentWhState' = "null"
  /\ shipsOnFarSide' = shipsOnFarSide
  /\ completion' = "none"
  /\ addActionRowShown' = TRUE
  /\ applySectionShown' = TRUE
  /\ lastRoll' = NoRoll

\* resetAll(): the fields it assigns
ResetAllEffect ==
  /\ committedActions' = << >>
  /\ stagedActions' = << >>
  /\ isTracking' = FALSE
  /\ initialWhSize' = 0
  /\ initialWhState' = "null"
  /\ initialWhRestriction' = 0
  /\ currentWhState' = "null"
  /\ shipsOnFarSide' = NoFleet
  /\ completion' = "none"
  /\ addActionRowShown' = TRUE
  /\ applySectionShown' = TRUE
  /\ lastRoll' = NoRoll

\* resetCurrentMode(), the reset button of the tracking screen
ResetAll ==
  /\ isTracking
  /\ ResetAllEffect
  /\ UNCHANGED << currentMode, initialFarSideFleet, remainingMass,
                  initialActualMass, randomEventOccurred, sessions, call >>

\* switchToMode(newMode), the mode tabs
SwitchToMode(newMode) ==
  /\ IF isTracking
     THEN ResetAllEffect
     ELSE UNCHANGED << committedActions, stagedActions, isTracking,
                       initialWhSize, initialWhState, initialWhRestriction,
                       currentWhState, shipsOnFarSide, completion,
                       addActionRowShown, applySectionShown, lastRoll >>
  /\ currentMode' = newMode
  /\ UNCHANGED << initialFarSideFleet, remainingMass, initialActualMass,
                  randomEventOccurred, sessions, call >>

\* a session that starts with nothing on the far side
SeedFarSideEmpty(initialFleet) == [k \in ShipKeys |-> 0]

\* startTracking(): the far-side ledger starts as a copy of the fleet seeded
\* at setup
SeedFarSide(initialFleet) == initialFleet

\* startTracking(), with initializeGame() in game mode: original and
\* remaining are the two random draws of initializeGame
startTracking(size, state, restriction, original, remaining) ==
  /\ ~isTracking
  /\ sessions' = sessions + 1
  /\ initialWhSize' = size
  /\ initialWhState' = state
  /\ initialWhRestriction' = restriction
  /\ currentWhState' = IF state = "fresh" THEN "stable" ELSE state
  /\ isTracking' = TRUE
  /\ shipsOnFarSide' = SeedFarSide(initialFarSideFleet)
  /\ applySectionShown' = (currentMode = "tracker")
  /\ IF currentMode = "game"
     THEN /\ getMinMass(size) <= original /\ original <= getMaxMass(size)
          /\ RemainingLo(original, state) <= remaining
          /\ remaining <= RemainingHi(original, state)
          /\ randomEventOccurred' = FALSE
          /\ remainingMass' = remaining
          /\ initialActualMass' = original
     ELSE UNCHANGED << randomEventOccurred, remainingMass, initialActualMass >>
  /\ UNCHANGED << currentMode, initialFarSideFleet, stagedActions,
                  committedActions, addActionRowShown, completion, lastRoll,
                  call >>

\* the start button of the setup screen, within the sessions explored
StartTracking(size, state, restriction, original, remaining) ==
  /\ sessions < MaxSessions
  /\ startTracking(size, state, restriction, original, remaining)

(***************************************************************************)
(* Tracker mode: staging and committing                                    *)
(***************************************************************************)
\* staging that books the ship on the far side at once, as a live action does
StageActionApplied(direction, ship) ==
  /\ isTracking
  /\ addActionRowShown
  /\ currentMode = "tracker"
  /\ Len(stagedActions) < MaxStaged
  /\ Len(committedActions) < MaxCommits
  /\ stagedActions' = Append(stagedActions, Action(ship, direction))
  /\ shipsOnFarSide' = TrackFarSide(shipsOnFarSide, Action(ship, direction))
  /\ UNCHANGED << currentMode, isTracking, initialWhSize, initialWhState,
                  initialWhRestriction, initialFarSideFleet, currentWhState,
                  committedActions, remainingMass,
                  initialActualMass, randomEventOccurred, addActionRowShown,
                  applySectionShown, completion, lastRoll, sessions, call >>

\* stageAction(direction) in tracker mode: TrackerMode.handleAddAction
StageAction(direction, ship) ==
  /\ isTracking
  /\ addActionRowShown
  /\ currentMode = "tracker"
  /\ Len(stagedActions) < MaxStaged
  /\ Len(committedActions) < MaxCommits
  /\ stagedActions' = Append(stagedActions, Action(ship, direction))
  /\ UNCHANGED << currentMode, isTracking, initialWhSize, initialWhState,
                  initialWhRestriction, initialFarSideFleet, currentWhState,
                  shipsOnFarSide, committedActions, remainingMass,
                  initialActualMass, randomEventOccurred, addActionRowShown,
                  applySectionShown, completion, lastRoll, sessions, call >>

\* updateApplyButtonStates(): the apply buttons that are not disabled
ApplyButtonEnabled(stateChange, currentState) ==
  CASE stateChange = "destab" -> currentState \notin {"destab", "critical", "gone"}
    [] stateChange = "critical" -> currentState \notin {"critical", "gone"}
    [] stateChange = "gone" -> currentState # "gone"
    [] OTHER -> TRUE

RECURSIVE FoldClamped(_, _, _)
\* the fold with the clamped subtraction of the live actions of game mode
FoldClamped(actions, i, mass) ==
  IF i > Len(actions) THEN mass
  ELSE FoldClamped(actions, i + 1,
         applyToMass(actions[i], mass, initialWhSize, currentWhState))

RECURSIVE FoldRaw(_, _, _)
\* applyStaging(): the raw fold of the staged actions over the display range
FoldRaw(actions, i, mass) ==
  IF i > Len(actions) THEN mass
  ELSE FoldRaw(actions, i + 1, ApplyToMassRaw(actions[i], mass))

RECURSIVE FoldFarSide(_, _, _)
\* commitStagingToLog(): the far-side ledger after the batch
FoldFarSide(actions, i, far) ==
  IF i > Len(actions) THEN far
  ELSE FoldFarSide(actions, i + 1, TrackFarSide(far, actions[i]))

RECURSIVE PassedMass2(_, _)
\* commitStagingToLog(): twice the passed mass of the batch (exact mass, or
\* the midpoint of cold and hot)
PassedMass2(actions, i) ==
  IF i > Len(actions) THEN 0
  ELSE LET m == getMass(actions[i].ship)
       IN  (m.min + m.max) + PassedMass2(actions, i + 1)

RECURSIVE TotalPassed2(_, _)
TotalPassed2(log, i) ==
  IF i > Len(log) THEN 0 ELSE log[i].passedMass2 + TotalPassed2(log, i + 1)

\* commitStagingToLog(actions, stateChange, finalMass): the entry it appends
BatchEntry(actions, stateChange, state, finalMass, far) ==
  [Entry("batch", actions, 0, 0, stateChange, state, finalMass, far)
     EXCEPT !.passedMass2 = PassedMass2(actions, 1),
            !.totalPassedMass2 = TotalPassed2(committedActions, 1)
                                   + PassedMass2(actions, 1)]

\* a commit that never takes the early return
NeverNothingStaged(staged) == FALSE

\* applyStaging(): the early return on an empty staged queue (1057-1060)
NothingStaged(staged) == Len(staged) = 0

\* the position of a state in the progression stable, destab, critical, gone
Severity(state) ==
  CASE state = "destab" -> 1
    [] state = "critical" -> 2
    [] state = "gone" -> 3
    [] OTHER -> 0

\* a commit that never lets the state become less severe
DeclaredStateMonotone(stateChange, current) ==
  IF stateChange # "no-change" /\ Severity(stateChange) >= Severity(current)
  THEN stateChange ELSE current

\* applyStaging(): finalState, the state after the commit (1073-1078)
DeclaredState(stateChange, current) ==
  IF stateChange # "no-change" THEN stateChange ELSE current

\* applyStaging(stateChange)
applyStaging(stateChange) ==
  IF NothingStaged(stagedActions)
  THEN UNCHANGED vars
  ELSE LET raw == FoldRaw(stagedActions, 1, calculateCurrentMass)
              finalState == DeclaredState(stateChange, currentWhState)
              finalMass == ClampToBoundaries(raw,
                             getStateBoundaries(initialWhSize, finalState))
              far == FoldFarSide(stagedActions, 1, shipsOnFarSide)
          IN  /\ Len(committedActions) < MaxCommits
              /\ currentWhState' = finalState
              /\ shipsOnFarSide' = far
              /\ committedActions' = Append(committedActions,
                   BatchEntry(stagedActions, stateChange, finalState, finalMass, far))
              /\ stagedActions' = << >>
              /\ IF stateChange = "gone"
                 THEN /\ completion' = handleWormholeCompletion(
                             LedgerAtVerdict(shipsOnFarSide, far), initialFarSideFleet)
                      /\ addActionRowShown' = AddActionRowShownAfter(TRUE)
                      /\ applySectionShown' = FALSE
                 ELSE UNCHANGED << completion, addActionRowShown, applySectionShown >>
              /\ UNCHANGED << currentMode, isTracking, initialWhSize,
                              initialWhState, initialWhRestriction,
                              initialFarSideFleet, remainingMass,
                              initialActualMass, randomEventOccurred,
                              lastRoll, sessions, call >>

\* a click on one of the four apply buttons (977-988), which
\* updateApplyButtonStates() may have disabled
ApplyStaging(stateChange) ==
  /\ isTracking
  /\ applySectionShown
  /\ ApplyButtonEnabled(stateChange, currentWhState)
  /\ applyStaging(stateChange)

(***************************************************************************)
(* Game mode: immediate resolution and the random event                    *)
(***************************************************************************)
\* GameMode.handleAddAction (80-87): the masses the hidden debit can use
ActualMasses(ship) == {getMass(ship).min, getMass(ship).max}

\* GameMode.handleAddAction (77-152): the player's part of the handler
PlayerStep(direction, ship, actualMassUsed) ==
  LET action == Action(ship, direction)
      rem == remainingMass - actualMassUsed
      far == TrackFarSide(shipsOnFarSide, action)
      outcome == determineOutcome(rem, initialActualMass, currentWhState)
      state == IF outcome.newState # "no-change" THEN outcome.newState
               ELSE currentWhState
      disp == IF outcome.newState = "gone" THEN [min |-> 0, max |-> 0]
              ELSE applyToMass(action, calculateCurrentMass, initialWhSize, state)
  IN  [rem |-> rem, far |-> far, state |-> state, outcome |-> outcome,
       entry |-> Entry("action", << action >>, actualMassUsed, rem,
                       outcome.newState, state, disp, far)]

\* a roll whose events were all discarded still uses up the one event
DiscardedRollCounts(occurred, randomEvents) == occurred \/ randomEvents # {}

\* processRandomEventsAfterAction(): with no valid event the flag is left as
\* it is, the else branch only logs (771-778)
DiscardedRoll(occurred, randomEvents) == occurred

\* the early return taken in tracker mode only
EventsMayRunAfterCollapse(mode, remaining) == mode = "game"

\* processRandomEventsAfterAction(): the early return (754-756) is not taken
EventsMayRun(mode, remaining) == ~(mode # "game" \/ remaining <= 0)

\* the mass impacts the sub-actions of an event can draw
ImpactSeqs(event) ==
  {<< a, b >> : a \in MassImpacts(RANDOM_EVENTS[event][1]),
                b \in MassImpacts(RANDOM_EVENTS[event][2])}

\* an event whose ships are counted like the player's
EventFarSideTracked(far, processed) == FoldFarSide(processed, 1, far)

\* processRandomEventAsAction(): the far-side ledger after the sub-actions;
\* the loop (795-863) has no bookkeeping for the event ships
EventFarSide(far, processed) == far

\* stageAction(direction) in game mode: GameMode.handleAddAction, then
\* processRandomEventsAfterAction and, when an event is picked,
\* processRandomEventAsAction; rolled is the set of events whose
\* probability roll succeeded
GameAction(direction, ship, actualMassUsed, rolled) ==
  /\ isTracking
  /\ addActionRowShown
  /\ currentMode = "game"
  /\ Cardinality(PlayerEntries) < MaxActions
  /\ actualMassUsed \in ActualMasses(ship)
  /\ LET p == PlayerStep(direction, ship, actualMassUsed)
         collapsed == p.outcome.newState = "gone"
         ledger == LedgerAtVerdict(shipsOnFarSide, p.far)
         randomEvents == IF EventsMayRun(currentMode, p.rem)
                         THEN checkForRandomEvents(currentMode, randomEventOccurred, rolled)
                         ELSE {}
         validEvents == ValidEvents(randomEvents, initialWhRestriction)
     IN  IF validEvents = {}
         THEN /\ remainingMass' = p.rem
              /\ shipsOnFarSide' = p.far
              /\ currentWhState' = p.state
              /\ committedActions' = Append(committedActions, p.entry)
              /\ completion' = IF collapsed
                               THEN handleWormholeCompletion(ledger, initialFarSideFleet)
                               ELSE completion
              /\ addActionRowShown' = AddActionRowShownAfter(collapsed)
              /\ applySectionShown' = (applySectionShown /\ ~collapsed)
              /\ lastRoll' = [rolled |-> rolled, triggered |-> randomEvents,
                              valid |-> validEvents,
                              executed |-> "none", impacts |-> << >>]
              /\ randomEventOccurred' = DiscardedRoll(randomEventOccurred, randomEvents)
         ELSE \E event \in validEvents : \E impacts \in ImpactSeqs(event) :
                LET st0 == [rem |-> p.rem, state |-> p.state,
                            disp |-> p.entry.finalMass, processed |-> << >>,
                            total |-> 0, change |-> "no-change"]
                    st == EventLoop(RANDOM_EVENTS[event], impacts, 1, st0,
                                    initialWhSize, initialActualMass)
                    gone == st.state = "gone"
                    efar == EventFarSide(p.far, st.processed)
                    verdict0 == IF collapsed
                                THEN handleWormholeCompletion(ledger, initialFarSideFleet)
                                ELSE completion
                IN  /\ randomEventOccurred' = TRUE
                    /\ remainingMass' = st.rem
                    /\ shipsOnFarSide' = efar
                    /\ currentWhState' = st.state
                    /\ committedActions' =
                         Append(Append(committedActions, p.entry),
                                EventEntry(event, st, efar))
                    /\ completion' = IF gone
                                     THEN handleWormholeCompletion(efar, initialFarSideFleet)
                                     ELSE verdict0
                    /\ addActionRowShown' = AddActionRowShownAfter(collapsed \/ gone)
                    /\ applySectionShown' = (applySectionShown /\ ~(collapsed \/ gone))
                    /\ lastRoll' = [rolled |-> rolled, triggered |-> randomEvents,
                                    valid |-> validEvents, executed |-> event,
                                    impacts |-> SubSeq(impacts, 1, Len(st.processed))]
  /\ UNCHANGED << currentMode, isTracking, initialWhSize, initialWhState,
                  initialWhRestriction, initialFarSideFleet, stagedActions,
                  initialActualMass, sessions, call >>

(***************************************************************************)
(* The application                                                         *)
(***************************************************************************)
\* the wormhole sizes and restriction levels picked in the exploration
SizeSample == {750, 3000}

RestrictionSample == {1, 3, 5}

Next ==
  \/ \E shipKey \in SeededShips, action \in {"increase", "decrease"} :
       UpdateFarSideQuantity(shipKey, action)
  \/ \E newMode \in {"tracker", "game"} : SwitchToMode(newMode)
  \/ \E size \in SizeSample, state \in InitialWhStates,
        restriction \in RestrictionSample :
       \E original \in OriginalSample(size) :
         \E remaining \in RemainingSample(original, state) :
           StartTracking(size, state, restriction, original, remaining)
  \/ \E mv \in Moves(initialWhRestriction) : StageAction(mv.direction, mv.ship)
  \/ \E stateChange \in {"no-change", "destab", "critical", "gone"} :
       ApplyStaging(stateChange)
  \/ \E mv \in Moves(initialWhRestriction) :
       \E actualMassUsed \in ActualMasses(mv.ship), rolled \in SUBSET EventNames :
         GameAction(mv.direction, mv.ship, actualMassUsed, rolled)
  \/ ResetAll

Spec == Init /\ [][Next]_vars

(***************************************************************************)
(* The tracker session driven without the apply buttons: applyStaging is   *)
(* called with every state the wormhole can be declared to be in.          *)
(***************************************************************************)
CommitStates == WORMHOLE_STATES \cup {"no-change"}

EngineRestrictions == {5}

NextEngine ==
  \/ \E size \in SizeSample, state \in InitialWhStates,
        restriction \in EngineRestrictions :
       StartTracking(size, state, restriction, getMaxMass(size), getMaxMass(size))
  \/ \E mv \in Moves(initialWhRestriction) : StageAction(mv.direction, mv.ship)
  \/ \E stateChange \in CommitStates : applyStaging(stateChange)

SpecEngine == Init /\ [][NextEngine]_vars

(***************************************************************************)
(* Sessions one after the other: a 750 Gg session is played, reset (by the *)
(* reset button or a mode tab) and followed by the start of the next one.  *)
(***************************************************************************)
RestartSizes == {750}

RestartRestrictions == {3}

NextReset ==
  \/ \E shipKey \in SeededShips, action \in {"increase", "decrease"} :
       UpdateFarSideQuantity(shipKey, action)
  \/ \E newMode \in {"tracker", "game"} : SwitchToMode(newMode)
  \/ \E size \in RestartSizes, state \in InitialWhStates,
        restriction \in RestartRestrictions :
       \E original \in OriginalSample(size) :
         \E remaining \in RemainingSample(original, state) :
           /\ sessions < MaxRestarts
           /\ startTracking(size, state, restriction, original, remaining)
  \/ \E mv \in Moves(initialWhRestriction) :
       sessions < MaxRestarts /\ StageAction(mv.direction, mv.ship)
  \/ \E stateChange \in {"no-change", "destab", "critical", "gone"} :
       sessions < MaxRestarts /\ ApplyStaging(stateChange)
  \/ \E mv \in Moves(initialWhRestriction) :
       \E actualMassUsed \in ActualMasses(mv.ship), rolled \in SUBSET EventNames :
         /\ sessions < MaxRestarts
         /\ GameAction(mv.direction, mv.ship, actualMassUsed, rolled)
  \/ ResetAll

SpecReset == Init /\ [][NextReset]_vars

(***************************************************************************)
(* Custom masses: sessions on a 3000 Gg wormhole in which the custom-mass  *)
(* field is used in both directions next to one typed ship.                *)
(***************************************************************************)
CustomSizes == {3000}

CustomRestrictions == {5}

\* the moves of these sessions
CustomMoves ==
  {[direction |-> "B", ship |-> Ship("bs", "unknown")],
   [direction |-> "A", ship |-> CustomMass(1200)],
   [direction |-> "B", ship |-> CustomMass(1200)],
   [direction |-> "B", ship |-> CustomMass(1)]}

NextCustom ==
  \/ \E shipKey \in SeededShips, action \in {"increase", "decrease"} :
       UpdateFarSideQuantity(shipKey, action)
  \/ \E newMode \in {"tracker", "game"} : SwitchToMode(newMode)
  \/ \E size \in CustomSizes, state \in InitialWhStates,
        restriction \in CustomRestrictions :
       \E original \in OriginalSample(size) :
         \E remaining \in RemainingSample(original, state) :
           StartTracking(size, state, restriction, original, remaining)
  \/ \E mv \in CustomMoves : StageAction(mv.direction, mv.ship)
  \/ \E stateChange \in {"no-change", "destab", "critical", "gone"} :
       ApplyStaging(stateChange)
  \/ \E mv \in CustomMoves :
       \E actualMassUsed \in ActualMasses(mv.ship), rolled \in SUBSET EventNames :
         GameAction(mv.direction, mv.ship, actualMassUsed, rolled)
  \/ ResetAll

SpecCustom == Init /\ [][NextCustom]_vars

(***************************************************************************)
(* The functions of wormhole-logic.js called directly, as its unit tests   *)
(* call them: one call of applyToMass, getStateBoundaries or               *)
(* getCurrentMassRange on arguments drawn from the samples below.          *)
(***************************************************************************)
\* the bounds of the intervals passed to applyToMass
MassSample == {0, 1, 60, 100, 150, 400, 1500, 5500}

IntervalSample ==
  {[min |-> p[1], max |-> p[2]] :
     p \in {q \in MassSample \X MassSample : q[1] <= q[2]}}
    \cup {[min |-> 2700, max |-> 3300], [min |-> 2550, max |-> 3200]}

\* the ships passed to applyToMass
ShipSample ==
  {Ship(t, m) : t \in {"rhic", "bs", "carrier", "covops"},
                m \in {"cold", "unknown", "hot"}}
    \cup {CustomMass(1), CustomMass(1200)}

\* the state of the Wormhole passed along, "null" for none
CallStates == WORMHOLE_STATES \cup {"null"}

InitLogic ==
  /\ InitialFields
  /\ \E baseMass \in WORMHOLE_MASS_TYPES, state \in CallStates,
        currentMass \in IntervalSample, ship \in ShipSample,
        direction \in {"A", "B"} :
       call = [NoCall EXCEPT !.baseMass = baseMass, !.state = state,
                             !.currentMass = currentMass,
                             !.action = Action(ship, direction)]

\* action.applyToMass(currentMass, wormholeState = null)
CallApplyToMass ==
  /\ call.op = "none"
  /\ call' = [call EXCEPT
       !.op = "applyToMass",
       !.result = IF call.state = "null"
                  THEN ApplyToMassRaw(call.action, call.currentMass)
                  ELSE applyToMass(call.action, call.currentMass,
                                   call.baseMass, call.state)]
  /\ UNCHANGED uiVars

\* new Wormhole(baseMass, state).getStateBoundaries()
CallGetStateBoundaries ==
  /\ call.op = "none"
  /\ call.state # "null"
  /\ call' = [call EXCEPT !.op = "getStateBoundaries",
                          !.result = getStateBoundaries(call.baseMass, call.state)]
  /\ UNCHANGED uiVars

\* new Wormhole(baseMass, state).getCurrentMassRange()
CallGetCurrentMassRange ==
  /\ call.op = "none"
  /\ call.state # "null"
  /\ call' = [call EXCEPT !.op = "getCurrentMassRange",
                          !.result = getCurrentMassRange(call.baseMass, call.state)]
  /\ UNCHANGED uiVars

NextLogic ==
  \/ CallApplyToMass
  \/ CallGetStateBoundaries
  \/ CallGetCurrentMassRange

SpecLogic == InitLogic /\ [][NextLogic]_vars

(***************************************************************************)
(* Properties                                                              *)
(***************************************************************************)
InGame == isTracking /\ currentMode = "game"

Within(mass, range) == range.min <= mass /\ mass <= range.max

\* the hidden remaining mass of a ledger entry lies in the range it displays
EntryConsistent(entry) == Within(entry.remainingMass, entry.finalMass)

LastEntry == committedActions[Len(committedActions)]

\* C1: in game mode, after every player action that leaves the state other
\* than gone, the hidden remaining mass lies inside the range displayed for
\* that action.
C1_PlayerActionConsistent ==
  InGame =>
    \A i \in PlayerEntries :
      committedActions[i].currentState # "gone"
        => EntryConsistent(committedActions[i])

\* C2: within one game session at most one random event is executed, even
\* when every event triggers on every roll, and randomEventOccurred, once
\* true, stays true for the rest of the session.
C2_OneEventPerSession ==
  [][ /\ InGame' => Cardinality(EventEntries') <= 1
      /\ (InGame /\ InGame' /\ randomEventOccurred) => randomEventOccurred'
      /\ (InGame' /\ EventEntries' # {}) => randomEventOccurred' ]_vars

\* a session in which an event ran after the first player action, and the
\* second player action rolled every event again without one being executed
C2_Witness ==
  /\ InGame
  /\ Len(committedActions) = 3
  /\ committedActions[2].type = "event"
  /\ committedActions[3].type = "action"
  /\ lastRoll.rolled = EventNames
  /\ lastRoll.executed = "none"
  /\ remainingMass > 0
  /\ randomEventOccurred

\* C3: in game mode collapse is terminal: once a step derives gone, the
\* state is gone at every later step of the session and the hidden remaining
\* mass is never above 0 again.
C3_CollapseTerminal ==
  [][ /\ (InGame' /\ currentWhState' = "gone") => remainingMass' <= 0
      /\ InGame' =>
           \A i \in 1..Len(committedActions') :
             committedActions'[i].currentState = "gone"
               => /\ committedActions'[i].remainingMass <= 0
                  /\ \A j \in i..Len(committedActions') :
                       /\ committedActions'[j].currentState = "gone"
                       /\ committedActions'[j].remainingMass <= 0
                  /\ currentWhState' = "gone"
      /\ (InGame /\ InGame' /\ currentWhState = "gone")
           => (currentWhState' = "gone" /\ remainingMass' <= remainingMass) ]_vars

\* an event whose first sub-action collapsed the wormhole: the second
\* sub-action was skipped and the session ended gone
C3_Witness ==
  /\ InGame
  /\ currentWhState = "gone"
  /\ remainingMass <= 0
  /\ Len(committedActions) >= 2
  /\ LastEntry.type = "event"
  /\ LastEntry.actionsProcessed = 1
  /\ LastEntry.totalActions = 2

\* C4: when a session completes (tracker commit declared gone, or game state
\* derived gone by a player action or by an event), the verdict is win if
\* and only if the total count of the far-side ledger is zero at that
\* moment.
C4_VerdictIffFarSideEmpty ==
  /\ (isTracking /\ currentWhState = "gone") => completion # "none"
  /\ completion # "none" =>
       /\ currentWhState = "gone"
       /\ completion = "win" <=> FarSideCount(shipsOnFarSide) = 0
       /\ LastEntry.shipsOnFarSide = shipsOnFarSide

\* a completed session won although a ship was seeded on the far side: it
\* came back before the collapse
C4_Witness ==
  /\ completion = "win"
  /\ FarSideCount(initialFarSideFleet) > 0
  /\ FarSideCount(shipsOnFarSide) = 0

\* the state the thresholds of the specification call for
ExpectedState(remaining, original) ==
  IF remaining <= 0 THEN "gone"
  ELSE IF 10 * remaining <= original THEN "critical"
  ELSE IF 2 * remaining <= original THEN "destab"
  ELSE "stable"

\* C5: the state derived in game mode is gone for remaining <= 0, critical
\* for at most 10% of the original capacity, destab for at most 50%, stable
\* otherwise; exactly 50% is destab and exactly 10% is critical.
C5_DerivedState ==
  InGame =>
    /\ \A i \in PlayerEntries \cup EventEntries :
         committedActions[i].currentState =
           ExpectedState(committedActions[i].remainingMass, initialActualMass)
    /\ Len(committedActions) > 0 =>
         currentWhState = ExpectedState(remainingMass, initialActualMass)

\* a player action that left exactly 50% of the original capacity
C5_Witness ==
  /\ InGame
  /\ Len(committedActions) = 1
  /\ 2 * remainingMass = initialActualMass
  /\ LastEntry.stateChange = "destab"
  /\ currentWhState = "destab"

\* C6: on a 3000 Gg wormhole in game mode, whatever the initial state and
\* the sequence of player actions, the hidden remaining mass is within the
\* displayed range at every player step at which the state is not gone.
C6_Consistent3000 ==
  (InGame /\ initialWhSize = 3000) =>
    \A i \in PlayerEntries :
      committedActions[i].currentState # "gone"
        => EntryConsistent(committedActions[i])

\* C7: after a random event that did not collapse the wormhole, the hidden
\* remaining mass lies within the range stored in the event's ledger entry,
\* given that it lay within the displayed range before the event.
C7_EventConsistent ==
  InGame =>
    \A i \in EventEntries :
      (/\ i > 1
       /\ EntryConsistent(committedActions[i - 1])
       /\ committedActions[i].currentState # "gone")
        => EntryConsistent(committedActions[i])

\* C8: right after the game is initialized, before any action, the sampled
\* hidden remaining mass lies within the display range of the chosen initial
\* state.
C8_InitialConsistent ==
  (InGame /\ Len(committedActions) = 0) =>
    Within(remainingMass, getCurrentMassRange(initialWhSize, initialWhState))

\* C9: a random event is executed only as the last step of handling a player
\* action in game mode, after the entry of that action is in the ledger and
\* only if the hidden remaining mass is above 0 then; never in tracker mode,
\* never before a player action, never after a collapsing action.
C9_EventOnlyAfterPlayerAction ==
  [][ (\E i \in EventEntries' : i > Len(committedActions))
        => /\ currentMode = "game" /\ currentMode' = "game"
           /\ Len(committedActions') = Len(committedActions) + 2
           /\ SubSeq(committedActions', 1, Len(committedActions)) = committedActions
           /\ committedActions'[Len(committedActions) + 1].type = "action"
           /\ committedActions'[Len(committedActions) + 1].remainingMass > 0
           /\ committedActions'[Len(committedActions) + 1].currentState # "gone"
           /\ committedActions'[Len(committedActions) + 2].type = "event"
           /\ committedActions'[Len(committedActions) + 2].actionsProcessed >= 1 ]_vars

\* an event executed right after the first player action of a game
C9_Witness ==
  /\ InGame
  /\ Len(committedActions) = 2
  /\ committedActions[1].type = "action"
  /\ committedActions[1].remainingMass > 0
  /\ committedActions[2].type = "event"
  /\ lastRoll.executed = committedActions[2].eventName

\* every sub-action of the event uses a ship that fits the restriction
EventFits(event, restriction) ==
  \A k \in 1..Len(RANDOM_EVENTS[event]) :
    ShipSize[RANDOM_EVENTS[event][k].shipType] <= restriction

\* C10: a triggered event is executed only if each of its sub-actions uses a
\* ship whose size is at most the restriction of the session; the executed
\* event is one of the triggered events that fit the restriction.
C10_ExecutedEventFits ==
  isTracking =>
    /\ \A i \in EventEntries :
         EventFits(committedActions[i].eventName, initialWhRestriction)
    /\ lastRoll.executed # "none" =>
         /\ lastRoll.executed \in lastRoll.rolled
         /\ lastRoll.executed \in lastRoll.triggered
         /\ EventFits(lastRoll.executed, initialWhRestriction)
         /\ LastEntry.type = "event"
         /\ LastEntry.eventName = lastRoll.executed
    /\ (lastRoll.executed = "none" /\ Len(committedActions) > 0)
         => LastEntry.type # "event"

\* both events triggered on a restriction that only the cruisers pass: the
\* cruiser event was executed, the carrier event discarded
C10_Witness ==
  /\ InGame
  /\ initialWhRestriction = 3
  /\ lastRoll.triggered = EventNames
  /\ lastRoll.executed = "neutral_cruiser_jump"
  /\ LastEntry.type = "event"

RECURSIVE SumSeq(_, _)
SumSeq(seq, n) == IF n = 0 THEN 0 ELSE seq[n] + SumSeq(seq, n - 1)

\* the sub-action of the event as the ledger entry must list it
EventActionOf(event, k) ==
  [ship |-> [type |-> RANDOM_EVENTS[event][k].shipType, mode |-> "unknown",
             mass |-> 0],
   direction |-> IF RANDOM_EVENTS[event][k].direction = "outgoing"
                 THEN "B" ELSE "A"]

\* C11: an executed event appends exactly one ledger entry; its sub-actions
\* run in their defined order; once a sub-action has brought the hidden mass
\* to 0 or below no further sub-action runs; processed + skipped is the
\* number of sub-actions of the event, and processed < total only if the
\* final state is gone.
C11_EventEntry ==
  InGame =>
    /\ \A i \in EventEntries :
         LET e == committedActions[i]
             total == Len(RANDOM_EVENTS[e.eventName])
         IN  /\ e.totalActions = total
             /\ e.actionsProcessed = Len(e.actions)
             /\ e.actionsProcessed >= 1 /\ e.actionsProcessed <= total
             /\ \A k \in 1..Len(e.actions) :
                  e.actions[k] = EventActionOf(e.eventName, k)
             /\ e.actionsProcessed < total => e.currentState = "gone"
             /\ i > 1 /\ committedActions[i - 1].type = "action"
             /\ e.remainingMass =
                  committedActions[i - 1].remainingMass - e.actualMassUsed
             /\ i < Len(committedActions) => committedActions[i + 1].type = "action"
    /\ lastRoll.executed # "none" =>
         LET e == LastEntry
             before == committedActions[Len(committedActions) - 1].remainingMass
             n == Len(lastRoll.impacts)
         IN  /\ e.type = "event"
             /\ e.actionsProcessed = n
             /\ e.actualMassUsed = SumSeq(lastRoll.impacts, n)
             /\ \A k \in 1..(n - 1) : before - SumSeq(lastRoll.impacts, k) > 0
             /\ n < e.totalActions => before - SumSeq(lastRoll.impacts, n) <= 0

\* a cruiser event whose first jump collapsed the wormhole: one sub-action
\* processed, the other one skipped
C11_Witness ==
  /\ InGame
  /\ lastRoll.executed = "neutral_cruiser_jump"
  /\ Len(lastRoll.impacts) = 1
  /\ LastEntry.type = "event"
  /\ LastEntry.totalActions - LastEntry.actionsProcessed = 1
  /\ LastEntry.actions = << EventActionOf("neutral_cruiser_jump", 1) >>
  /\ LastEntry.currentState = "gone"

\* C12: every range stored in a ledger entry, in either mode and whatever
\* the declared or derived state (gone included), satisfies 0 <= min <= max.
C12_RangesOrdered ==
  \A i \in 1..Len(committedActions) :
    /\ 0 <= committedActions[i].finalMass.min
    /\ committedActions[i].finalMass.min <= committedActions[i].finalMass.max

\* a tracker commit declared critical while the raw minimum was still above
\* the critical boundary: the stored minimum was lowered onto the maximum
C12_Witness ==
  /\ isTracking /\ currentMode = "tracker"
  /\ Len(committedActions) = 1
  /\ LastEntry.type = "batch"
  /\ LastEntry.currentState = "critical"
  /\ LastEntry.finalMass.max = getStateBoundaries(initialWhSize, "critical").max
  /\ LastEntry.finalMass.min = LastEntry.finalMass.max
  /\ FoldRaw(LastEntry.actions, 1,
             getCurrentMassRange(initialWhSize, initialWhState)).min
       > LastEntry.finalMass.max

\* the range a ledger entry started from: the range of the entry before it,
\* or the initial display range
RangeBefore(i) ==
  IF i = 1 THEN getCurrentMassRange(initialWhSize, initialWhState)
  ELSE committedActions[i - 1].finalMass

\* C13: across tracker commits, whatever the declared states, the max of
\* the committed range never increases from one ledger entry to the next and
\* never exceeds the max of the initial display range.
C13_TrackerMaxNonIncreasing ==
  (isTracking /\ currentMode = "tracker") =>
    \A i \in BatchEntries :
      /\ committedActions[i].finalMass.max <= RangeBefore(i).max
      /\ committedActions[i].finalMass.max
           <= getCurrentMassRange(initialWhSize, initialWhState).max

\* two tracker commits, the second one re-declaring no-change on a
\* destabilized wormhole: the max went down at both
C13_Witness ==
  /\ isTracking /\ currentMode = "tracker"
  /\ Len(committedActions) = 2
  /\ committedActions[1].stateChange = "destab"
  /\ committedActions[2].stateChange = "no-change"
  /\ committedActions[1].finalMass.max
       < getCurrentMassRange(initialWhSize, initialWhState).max
  /\ committedActions[2].finalMass.max < committedActions[1].finalMass.max

RECURSIVE SumUpper(_, _)
\* the greatest mass the first n actions can have passed
SumUpper(actions, n) ==
  IF n = 0 THEN 0 ELSE getMass(actions[n].ship).max + SumUpper(actions, n - 1)

RECURSIVE SumLower(_, _)
\* the least mass the first n actions can have passed
SumLower(actions, n) ==
  IF n = 0 THEN 0 ELSE getMass(actions[n].ship).min + SumLower(actions, n - 1)

\* the batch subtracted from a range without any state boundary, and the
\* result clamped once to the boundaries of a state
BatchResult(actions, range, baseMass, state) ==
  LET rawMin == Max2(0, range.min - SumUpper(actions, Len(actions)))
      rawMax == Max2(0, range.max - SumLower(actions, Len(actions)))
      sb == getStateBoundaries(baseMass, state)
      mx == IF rawMax <= sb.max THEN rawMax ELSE sb.max
      mn == IF rawMin >= sb.min THEN rawMin ELSE sb.min
  IN  [min |-> IF mn <= mx THEN mn ELSE mx, max |-> mx]

\* the step is a tracker commit: the ledger grows while the session goes on
\* in tracker mode
IsCommit ==
  /\ isTracking /\ isTracking' /\ currentMode = "tracker"
  /\ Len(committedActions') > Len(committedActions)

\* C14: a tracker commit applies all staged actions, in staging order and
\* without clamping, to the last committed range (the initial display range
\* when nothing is committed), clamps the result once to the boundaries of
\* the declared state (the current state for no-change), appends exactly
\* one ledger entry and leaves the staged queue empty.
C14_CommitSemantics ==
  [][ IsCommit =>
        LET n == Len(committedActions)
            e == committedActions'[n + 1]
            declared == IF e.stateChange = "no-change" THEN currentWhState
                        ELSE e.stateChange
        IN  /\ Len(committedActions') = n + 1
            /\ SubSeq(committedActions', 1, n) = committedActions
            /\ stagedActions # << >>
            /\ e.type = "batch"
            /\ e.actions = stagedActions
            /\ stagedActions' = << >>
            /\ currentWhState' = declared
            /\ e.currentState = declared
            /\ e.finalMass = BatchResult(stagedActions, calculateCurrentMass,
                                         initialWhSize, declared) ]_vars

\* a commit of two battleships (one of unknown mass, one hot) declared
\* destab on a stable wormhole: the raw minimum, 300 below the stable
\* boundary, was not lifted to it, and the maximum was cut to the destab one
C14_Witness ==
  /\ isTracking /\ currentMode = "tracker"
  /\ Len(committedActions) = 1
  /\ stagedActions = << >>
  /\ initialWhState = "stable"
  /\ Len(LastEntry.actions) = 2
  /\ LastEntry.stateChange = "destab"
  /\ currentWhState = "destab"
  /\ LastEntry.finalMass.min + 300
       = getCurrentMassRange(initialWhSize, "stable").min
  /\ LastEntry.finalMass.max = getStateBoundaries(initialWhSize, "destab").max

\* the scenario of the specification: 1000 Gg fresh, one custom mass of
\* 1200 Gg staged, committed as gone
GoneScenario ==
  ClampToBoundaries(
    FoldRaw(<< Action(CustomMass(1200), "B") >>, 1,
            getCurrentMassRange(1000, "fresh")),
    getStateBoundaries(1000, "gone"))

\* C15: committing a non-empty staged batch with declared state gone always
\* stores the range {min: 0, max: 0}, whatever the range before and the
\* staged masses, and completes the session.
C15_GoneCommit ==
  /\ GoneScenario = [min |-> 0, max |-> 0]
  /\ (isTracking /\ currentMode = "tracker") =>
       \A i \in BatchEntries :
         committedActions[i].stateChange = "gone" =>
           /\ committedActions[i].finalMass = [min |-> 0, max |-> 0]
           /\ Len(committedActions[i].actions) > 0
           /\ i = Len(committedActions)
           /\ currentWhState = "gone"
           /\ completion # "none"
           /\ ~addActionRowShown /\ ~applySectionShown
           /\ stagedActions = << >>

\* a fresh 3000 Gg wormhole declared gone after one custom mass of 1200 Gg,
\* which by the masses alone would leave at least 1500 Gg
C15_Witness ==
  /\ isTracking /\ currentMode = "tracker"
  /\ initialWhSize = 3000 /\ initialWhState = "fresh"
  /\ Len(committedActions) = 1
  /\ LastEntry.actions = << Action(CustomMass(1200), "A") >>
  /\ LastEntry.stateChange = "gone"
  /\ LastEntry.finalMass = [min |-> 0, max |-> 0]
  /\ completion = "win"

\* C16: committing with an empty staged queue, whatever the declared state
\* (gone included), is a no-op: a step of a tracker session that starts and
\* ends with an empty queue leaves the ledger, the current state, the
\* committed range and the far-side ledger as they are and does not complete
\* the session.
C16_EmptyCommitNoOp ==
  [][ (/\ isTracking /\ isTracking' /\ currentMode = "tracker"
       /\ stagedActions = << >> /\ stagedActions' = << >>)
        => /\ committedActions' = committedActions
           /\ currentWhState' = currentWhState
           /\ calculateCurrentMass' = calculateCurrentMass
           /\ shipsOnFarSide' = shipsOnFarSide
           /\ completion' = completion
           /\ addActionRowShown' = addActionRowShown
           /\ applySectionShown' = applySectionShown ]_vars

\* a tracker session with one commit behind it and nothing staged, where
\* every apply button, gone included, can be pressed
C16_Witness ==
  /\ isTracking /\ currentMode = "tracker"
  /\ applySectionShown
  /\ stagedActions = << >>
  /\ Len(committedActions) = 1
  /\ currentWhState = "stable"
  /\ FarSideCount(shipsOnFarSide) > 0
  /\ completion = "none"
  /\ \A d \in {"no-change", "destab", "critical", "gone"} :
       ApplyButtonEnabled(d, currentWhState)

\* C17: in tracker mode staging an action only appends it to the end of the
\* pending queue: the actions staged before keep their places, and the
\* committed range, the current state, the ledger entries and the far-side
\* ledger stay as they are until a commit.
C17_StageOnlyAppends ==
  [][ (currentMode = "tracker" /\ Len(stagedActions') > Len(stagedActions))
        => /\ \E a \in { Action(m.ship, m.direction) :
                           m \in Moves(initialWhRestriction) } :
                stagedActions' = Append(stagedActions, a)
           /\ committedActions' = committedActions
           /\ calculateCurrentMass' = calculateCurrentMass
           /\ currentWhState' = currentWhState
           /\ shipsOnFarSide' = shipsOnFarSide
           /\ completion' = completion
           /\ isTracking' = isTracking ]_vars

\* an outbound battleship staged behind another action after a first commit:
\* nothing but the queue has moved
C17_Witness ==
  /\ isTracking /\ currentMode = "tracker"
  /\ Len(committedActions) = 1
  /\ Len(stagedActions) = 2
  /\ stagedActions[2] = Action(Ship("bs", "unknown"), "B")
  /\ stagedActions[1] # stagedActions[2]
  /\ shipsOnFarSide = LastEntry.shipsOnFarSide
  /\ currentWhState = LastEntry.currentState
  /\ calculateCurrentMass = LastEntry.finalMass

RECURSIVE ExpectedCount(_, _, _, _)
\* the count of ship type k after the actions i.. of a list, from count n
ExpectedCount(k, actions, i, n) ==
  IF i > Len(actions) THEN n
  ELSE LET a == actions[i]
           n2 == IF a.ship.type # k THEN n
                 ELSE IF a.direction = "B" THEN n + 1
                 ELSE IF n > 0 THEN n - 1
                 ELSE 0
       IN  ExpectedCount(k, actions, i + 1, n2)

\* the far-side ledger before entry i
FarSideBefore(i) ==
  IF i = 1 THEN initialFarSideFleet ELSE committedActions[i - 1].shipsOnFarSide

\* C18: for every ship type the far-side count is a natural number in both
\* modes; over the actions of a player action or a committed batch an
\* outbound action of the type adds exactly 1, an inbound one takes 1 off a
\* positive count and leaves a zero count at zero, and an action of another
\* type (or a custom mass) leaves the count as it is.
C18_FarSideCounts ==
  isTracking =>
    /\ \A k \in ShipKeys : shipsOnFarSide[k] \in Nat
    /\ Len(committedActions) > 0 => shipsOnFarSide = LastEntry.shipsOnFarSide
    /\ Len(committedActions) = 0 => shipsOnFarSide = initialFarSideFleet
    /\ \A i \in PlayerEntries \cup BatchEntries : \A k \in ShipKeys :
         /\ committedActions[i].shipsOnFarSide[k] \in Nat
         /\ committedActions[i].shipsOnFarSide[k] =
              ExpectedCount(k, committedActions[i].actions, 1, FarSideBefore(i)[k])

\* a batch that brings a battleship back while none is out and then sends one
\* out: the count is 1 and the other types are still at zero
C18_Witness ==
  /\ isTracking /\ currentMode = "tracker"
  /\ initialFarSideFleet = NoFleet
  /\ Len(committedActions) = 1
  /\ committedActions[1].actions =
       << Action(Ship("bs", "hot"), "A"), Action(Ship("bs", "unknown"), "B") >>
  /\ shipsOnFarSide["bs"] = 1
  /\ \A k \in ShipKeys \ {"bs"} : shipsOnFarSide[k] = 0

RECURSIVE InboundIn(_, _, _)
\* the inbound actions of ship type k among the actions i.. of a list
InboundIn(k, actions, i) ==
  IF i > Len(actions) THEN 0
  ELSE (IF actions[i].ship.type = k /\ actions[i].direction = "A" THEN 1 ELSE 0)
       + InboundIn(k, actions, i + 1)

RECURSIVE InboundUpTo(_, _)
\* the inbound actions of ship type k in the player actions and batches of
\* the first n ledger entries
InboundUpTo(k, n) ==
  IF n = 0 THEN 0
  ELSE (IF committedActions[n].type \in {"action", "batch"}
        THEN InboundIn(k, committedActions[n].actions, 1) ELSE 0)
       + InboundUpTo(k, n - 1)

\* C19: a session starts with the far-side ledger equal to the fleet seeded at
\* setup, and a seeded ship counts toward the verdict like a ship sent out
\* during the session: a session that completes while fewer inbound actions
\* of some type were made than ships of that type were seeded is a loss.
C19_SeededFleetCounts ==
  isTracking =>
    /\ Len(committedActions) = 0 => shipsOnFarSide = initialFarSideFleet
    /\ completion # "none" =>
         ((\E k \in ShipKeys :
             initialFarSideFleet[k] > InboundUpTo(k, Len(committedActions)))
            => completion = "loss")

\* a tracker session seeded with one battleship that is closed by a gone
\* commit with no inbound battleship and no outbound ship at all: a loss
C19_Witness ==
  /\ isTracking /\ currentMode = "tracker"
  /\ initialFarSideFleet["bs"] = 1
  /\ completion = "loss"
  /\ InboundUpTo("bs", Len(committedActions)) = 0
  /\ \A i \in 1..Len(committedActions) :
       \A j \in 1..Len(committedActions[i].actions) :
         committedActions[i].actions[j].direction = "A"

\* the range lies within the boundaries of the state, the minimum being
\* pulled down to the maximum where the two would cross
ClampedTo(range, sb) ==
  /\ range.max <= sb.max
  /\ range.min <= range.max
  /\ range.min >= sb.min \/ range.min = range.max

\* C20: applyStaging accepts every declared state whatever the current state
\* is, a state less severe than the current one included: with actions
\* staged the commit can be made with each of them, the current state
\* becomes the declared state (no-change keeps it) and the committed range
\* is clamped to the boundaries of that state.
C20_AnyDeclaredState ==
  /\ [](isTracking /\ stagedActions # << >> /\ Len(committedActions) < MaxCommits
          => \A d \in CommitStates : ENABLED applyStaging(d))
  /\ [][ IsCommit =>
           LET e == committedActions'[Len(committedActions')]
           IN  /\ e.stateChange \in CommitStates
               /\ currentWhState' = IF e.stateChange = "no-change"
                                    THEN currentWhState ELSE e.stateChange
               /\ e.currentState = currentWhState'
               /\ ClampedTo(e.finalMass,
                            getStateBoundaries(initialWhSize, currentWhState'))
               /\ calculateCurrentMass' = e.finalMass ]_vars

\* a critical wormhole declared stable by its second commit: the state is
\* stable again while the range keeps the critical maximum
C20_Witness ==
  /\ isTracking /\ currentMode = "tracker"
  /\ Len(committedActions) = 2
  /\ committedActions[1].currentState = "critical"
  /\ committedActions[2].stateChange = "stable"
  /\ currentWhState = "stable"
  /\ committedActions[2].finalMass.max
       <= getStateBoundaries(initialWhSize, "critical").max
  /\ committedActions[2].finalMass.min = committedActions[2].finalMass.max

\* the step leaves a completed session completed
StaysCompleted ==
  /\ isTracking /\ completion # "none"
  /\ isTracking'

\* C21: Completed is terminal: once a tracker commit has declared gone or a
\* game action has derived gone, no stage, commit or action command changes
\* the ledger entries, the current state, the hidden remaining mass or the
\* far-side ledger, and the verdict stands; the session leaves Completed
\* only by a reset, which returns it to the setup screen.
C21_CompletedTerminal ==
  [][ (isTracking /\ completion # "none") =>
        \/ /\ ~isTracking'
           /\ completion' = "none"
           /\ committedActions' = << >>
        \/ /\ StaysCompleted
           /\ committedActions' = committedActions
           /\ stagedActions' = stagedActions
           /\ currentWhState' = currentWhState
           /\ remainingMass' = remainingMass
           /\ shipsOnFarSide' = shipsOnFarSide
           /\ completion' = completion ]_vars

\* a game completed by its first player action, with player actions still
\* within the bound of the exploration
C21_Witness ==
  /\ InGame
  /\ completion # "none"
  /\ currentWhState = "gone"
  /\ Cardinality(PlayerEntries) = 1
  /\ Cardinality(PlayerEntries) < MaxActions
  /\ ~addActionRowShown

(***************************************************************************)
(* Properties of the functions of wormhole-logic.js                        *)
(***************************************************************************)
Width(range) == range.max - range.min

\* a call of applyToMass without a state has returned
RawCallDone == call.op = "applyToMass" /\ call.state = "null"

\* the ship of the call is known only as [cold, hot]
CallUnknownMode == getMass(call.action.ship).min # getMass(call.action.ship).max

C23_WidthPreserved ==
  (RawCallDone /\ ~CallUnknownMode)
    => Width(call.result) = Width(call.currentMass)

\* C23 amended: exact-mode subtraction never widens an interval, and it
\* preserves the width of every interval whose minimum is at least the mass;
\* below that the minimum is floored at 0 and the width is what is left of
\* the maximum.
C23_WidthPreservedAboveMass ==
  (RawCallDone /\ ~CallUnknownMode) =>
    LET m == getMass(call.action.ship).min
    IN  /\ Width(call.result) <= Width(call.currentMass)
        /\ call.currentMass.min >= m
             => Width(call.result) = Width(call.currentMass)
        /\ call.currentMass.min < m
             => Width(call.result) = Max2(0, call.currentMass.max - m)

\* a hot battleship through [400, 1500]: [250, 1350], the width is still 1100
C23_Witness ==
  /\ RawCallDone
  /\ call.action.ship = Ship("bs", "hot")
  /\ call.currentMass = [min |-> 400, max |-> 1500]
  /\ call.result = [min |-> 250, max |-> 1350]

\* C24: applying, without a state, a ship whose every possible mass exceeds
\* the maximum of the interval yields exactly [0, 0]; and no application of
\* a ship to an interval with nonnegative bounds, with or without a state,
\* returns a negative bound.
C24_FlooredAtZero ==
  call.op = "applyToMass" =>
    /\ call.result.min >= 0
    /\ call.result.max >= 0
    /\ (call.state = "null"
        /\ getMass(call.action.ship).min > call.currentMass.max)
         => call.result = [min |-> 0, max |-> 0]

\* a carrier of unknown mass (1250 to 1750) through [100, 400]: [0, 0]
C24_Witness ==
  /\ RawCallDone
  /\ call.action.ship = Ship("carrier", "unknown")
  /\ call.currentMass = [min |-> 100, max |-> 400]
  /\ call.result = [min |-> 0, max |-> 0]

\* a call of applyToMass with a wormhole state has returned
ClampedCallDone == call.op = "applyToMass" /\ call.state # "null"

\* the boundaries of the state passed to the call
CallBoundaries == getStateBoundaries(call.baseMass, call.state)

\* C25 as stated: applyToMass called with a state returns, for every input
\* interval, ship and state, an interval within the state's boundaries:
\* result.min >= boundaries.min and result.max <= boundaries.max.
C25_WithinBoundaries ==
  ClampedCallDone =>
    /\ call.result.min >= CallBoundaries.min
    /\ call.result.max <= CallBoundaries.max

\* C25 amended: the result never exceeds the maximum boundary and is
\* ordered; its minimum is at least the minimum boundary whenever the
\* subtraction leaves a maximum that reaches that boundary, and otherwise
\* the minimum is lowered onto the maximum, below the boundary.
C25_ClampedAndOrdered ==
  ClampedCallDone =>
    LET raw == ApplyToMassRaw(call.action, call.currentMass)
    IN  /\ call.result.max <= CallBoundaries.max
        /\ call.result.max <= raw.max
        /\ call.result.min <= call.result.max
        /\ raw.max >= CallBoundaries.min
             => call.result.min >= CallBoundaries.min
        /\ raw.max < CallBoundaries.min
             => call.result.min = raw.max /\ call.result.max = raw.max

\* a hot battleship through [400, 1500] of a stable 1000 Gg wormhole: the raw
\* [250, 1350] is cut to the boundaries [450, 1100] on both sides
C25_Witness ==
  /\ ClampedCallDone
  /\ call.baseMass = 1000 /\ call.state = "stable"
  /\ call.action.ship = Ship("bs", "hot")
  /\ call.currentMass = [min |-> 400, max |-> 1500]
  /\ call.result = [min |-> 450, max |-> 1100]

\* the interval passed to the call lies within the boundaries of the state
\* passed along
CallWithinBoundaries ==
  /\ call.currentMass.min >= CallBoundaries.min
  /\ call.currentMass.max <= CallBoundaries.max

\* C26: applying an action never raises a bound: for every ship (all have a
\* positive mass) and every interval with nonnegative bounds that lies
\* within the boundaries of the state passed along, or with no state passed,
\* new.min <= old.min and new.max <= old.max; and where the boundary clamp
\* changes nothing, every bound that was positive has strictly decreased.
C26_NeverRaisesBound ==
  (/\ call.op = "applyToMass"
   /\ call.state = "null" \/ CallWithinBoundaries) =>
    LET raw == ApplyToMassRaw(call.action, call.currentMass)
    IN  /\ getMass(call.action.ship).min > 0
        /\ call.result.min <= call.currentMass.min
        /\ call.result.max <= call.currentMass.max
        /\ call.result = raw =>
             /\ call.currentMass.min > 0 => call.result.min < call.currentMass.min
             /\ call.currentMass.max > 0 => call.result.max < call.currentMass.max

\* a cold battleship through [400, 1500] of a destab 3000 Gg wormhole
\* (boundaries [270, 1650]): [300, 1400], both bounds lower and no clamp
C26_Witness ==
  /\ ClampedCallDone
  /\ CallWithinBoundaries
  /\ call.baseMass = 3000 /\ call.state = "destab"
  /\ call.action.ship = Ship("bs", "cold")
  /\ call.currentMass = [min |-> 400, max |-> 1500]
  /\ call.result = [min |-> 300, max |-> 1400]

\* C27: for every base capacity of WORMHOLE_MASS_TYPES and every state of
\* fresh, stable, destab, critical and gone, the boundaries returned by
\* getStateBoundaries have min <= max.
C27_BoundariesOrdered ==
  call.op = "getStateBoundaries" => call.result.min <= call.result.max

\* the destab boundaries of the smallest wormhole, 100 Gg: [9, 55]
C27_Witness ==
  /\ call.op = "getStateBoundaries"
  /\ call.baseMass = 100 /\ call.state = "destab"
  /\ call.result = [min |-> 9, max |-> 55]

\* C28: getCurrentMassRange and getStateBoundaries return the same interval
\* for every base capacity in the states stable, destab, critical and gone;
\* they differ for fresh only, where the display range is
\* [minCapacity, maxCapacity] and the boundaries are those of stable,
\* [round(0.5 * minCapacity), maxCapacity].
C28_DisplayVersusBoundaries ==
  call.op \in {"getStateBoundaries", "getCurrentMassRange"} =>
    LET display == IF call.op = "getCurrentMassRange" THEN call.result
                   ELSE getCurrentMassRange(call.baseMass, call.state)
        bounds == IF call.op = "getStateBoundaries" THEN call.result
                  ELSE getStateBoundaries(call.baseMass, call.state)
        minCapacity == (9 * call.baseMass) \div 10
        maxCapacity == (11 * call.baseMass) \div 10
    IN  /\ call.state # "fresh" => display = bounds
        /\ call.state = "fresh" =>
             /\ display # bounds
             /\ display = [min |-> minCapacity, max |-> maxCapacity]
             /\ bounds = getStateBoundaries(call.baseMass, "stable")
             /\ bounds = [min |-> (minCapacity + 1) \div 2, max |-> maxCapacity]

\* the boundaries of a fresh 3000 Gg wormhole: [1350, 3300], not the
\* display range [2700, 3300]
C28_Witness ==
  /\ call.op = "getStateBoundaries"
  /\ call.baseMass = 3000 /\ call.state = "fresh"
  /\ call.result = [min |-> 1350, max |-> 3300]
  /\ getCurrentMassRange(3000, "fresh") = [min |-> 2700, max |-> 3300]

\* round(0.1 * maxCapacity) of each base capacity, worked out by hand
\* (82.5 rounds up to 83)
TenthOfMaxCapacity(baseMass) ==
  CASE baseMass = 100 -> 11
    [] baseMass = 500 -> 55
    [] baseMass = 750 -> 83
    [] baseMass = 1000 -> 110
    [] baseMass = 2000 -> 220
    [] baseMass = 3000 -> 330
    [] baseMass = 3300 -> 363
    [] baseMass = 5000 -> 550

\* C29: for every base capacity the critical boundaries have min exactly 0
\* and max = round(0.1 * maxCapacity).
C29_CriticalBoundaries ==
  (call.op = "getStateBoundaries" /\ call.state = "critical") =>
    /\ call.result.min = 0
    /\ call.result.max = TenthOfMaxCapacity(call.baseMass)

\* the critical boundaries of a 750 Gg wormhole: [0, 83]
C29_Witness ==
  /\ call.op = "getStateBoundaries"
  /\ call.baseMass = 750 /\ call.state = "critical"
  /\ call.result = [min |-> 0, max |-> 83]

\* C30: for every base capacity both the boundaries and the display range
\* of state gone are exactly [-5000, 0].
C30_GoneRange ==
  (call.op \in {"getStateBoundaries", "getCurrentMassRange"}
   /\ call.state = "gone") =>
    /\ call.result = [min |-> -5000, max |-> 0]
    /\ getStateBoundaries(call.baseMass, "gone")
         = getCurrentMassRange(call.baseMass, "gone")

\* the display range of a gone 5000 Gg wormhole
C30_Witness ==
  /\ call.op = "getCurrentMassRange"
  /\ call.baseMass = 5000 /\ call.state = "gone"
  /\ call.result = [min |-> -5000, max |-> 0]

\* the call is made without a state or with the fresh or stable 3000 Gg
\* wormhole
Fresh3000OrNone ==
  \/ call.state = "null"
  \/ call.baseMass = 3000 /\ call.state \in {"fresh", "stable"}

\* C31: from the fresh 3000 Gg display range [2700, 3300] an inbound
\* battleship of unknown mass (cold 100, hot 150) gives [2550, 3200], and
\* from there an inbound hot battleship (150) gives [2400, 3050], with or
\* without the fresh/stable boundary clamp.
C31_BattleshipScenario ==
  /\ getCurrentMassRange(3000, "fresh") = [min |-> 2700, max |-> 3300]
  /\ (/\ call.op = "applyToMass" /\ Fresh3000OrNone
      /\ call.action = Action(Ship("bs", "unknown"), "A")
      /\ call.currentMass = [min |-> 2700, max |-> 3300])
       => call.result = [min |-> 2550, max |-> 3200]
  /\ (/\ call.op = "applyToMass" /\ Fresh3000OrNone
      /\ call.action = Action(Ship("bs", "hot"), "A")
      /\ call.currentMass = [min |-> 2550, max |-> 3200])
       => call.result = [min |-> 2400, max |-> 3050]

\* the second step of the scenario, made with the fresh 3000 Gg wormhole
C31_Witness ==
  /\ call.op = "applyToMass"
  /\ call.baseMass = 3000 /\ call.state = "fresh"
  /\ call.action = Action(Ship("bs", "hot"), "A")
  /\ call.currentMass = [min |-> 2550, max |-> 3200]
  /\ call.result = [min |-> 2400, max |-> 3050]

\* the loop state with which processRandomEventAsAction starts in the
\* current session state
EventStart ==
  [rem |-> remainingMass, state |-> currentWhState,
   disp |-> calculateCurrentMass, processed |-> << >>,
   total |-> 0, change |-> "no-change"]

\* C32: a random event with a single sub-action leaves the same hidden
\* remaining mass, the same derived state and the same displayed range as a
\* player action with the same ship in unknown mode, the same direction and
\* the same true mass applied to the same session state; the displayed range
\* is clamped to the boundaries of the state derived after the debit.
C32_EventMatchesPlayerAction ==
  (InGame /\ completion = "none") =>
    \A e \in ValidEvents(EventNames, initialWhRestriction) :
      LET eventAction == RANDOM_EVENTS[e][1]
          direction == IF eventAction.direction = "outgoing" THEN "B" ELSE "A"
      IN  \A m \in MassImpacts(eventAction) :
            LET st == EventLoop(<< eventAction >>, << m >>, 1, EventStart,
                                initialWhSize, initialActualMass)
                p == PlayerStep(direction, createEventShip(eventAction), m)
            IN  /\ st.rem = p.rem
                /\ st.state = p.state
                /\ st.disp = p.entry.finalMass
                /\ st.state # "gone" =>
                     st.disp = applyToMass(Action(createEventShip(eventAction), direction),
                                           calculateCurrentMass, initialWhSize,
                                           st.state)

\* the step is a reset: a session that was tracking no longer is
IsReset == isTracking /\ ~isTracking'

\* C33: after a reset from any session state nothing of the session remains:
\* the ledger, the staged queue and the far-side ledger are empty, the
\* configured size, state and restriction and the current state are unset
\* and the session is not tracking; a game started afterwards begins with
\* randomEventOccurred false and a hidden capacity and remaining mass drawn
\* anew for the size and state chosen.
C33_ResetLeavesNothing ==
  /\ [][ IsReset =>
           /\ committedActions' = << >>
           /\ stagedActions' = << >>
           /\ shipsOnFarSide' = NoFleet
           /\ initialWhSize' = 0
           /\ initialWhState' = "null"
           /\ initialWhRestriction' = 0
           /\ currentWhState' = "null"
           /\ completion' = "none"
           /\ addActionRowShown' /\ applySectionShown' ]_vars
  /\ [][ (~isTracking /\ isTracking' /\ currentMode = "game") =>
           /\ randomEventOccurred' = FALSE
           /\ initialActualMass' \in OriginalSample(initialWhSize')
           /\ remainingMass' \in RemainingSample(initialActualMass', initialWhState')
           /\ committedActions' = << >>
           /\ shipsOnFarSide' = initialFarSideFleet ]_vars

\* the second session, a fresh game, just started after a reset: no event
\* used, the hidden mass at the capacity drawn, nothing on the far side
C33_Witness ==
  /\ InGame
  /\ sessions = 2
  /\ Len(committedActions) = 0
  /\ ~randomEventOccurred
  /\ initialWhState = "fresh"
  /\ remainingMass = initialActualMass
  /\ shipsOnFarSide = NoFleet

\* the state of the session before ledger entry i
StateBefore(i) ==
  IF i = 1
  THEN (IF initialWhState = "fresh" THEN "stable" ELSE initialWhState)
  ELSE committedActions[i - 1].currentState

\* C34: in game mode, with severity ordered stable < destab < critical <
\* gone, the state never moves to a less severe one across the player
\* actions and random events of the ledger, whatever the base capacity and
\* the initial state (a session started as fresh begins in stable).
C34_SeverityNeverDecreases ==
  InGame =>
    /\ Len(committedActions) = 0 => currentWhState = StateBefore(1)
    /\ Len(committedActions) > 0 => currentWhState = LastEntry.currentState
    /\ \A i \in 1..Len(committedActions) :
         Severity(committedActions[i].currentState) >= Severity(StateBefore(i))

\* a game started as stable that a player action took to destab and a second
\* one, by itself or with its event, to critical
C34_Witness ==
  /\ InGame
  /\ initialWhState = "stable"
  /\ Len(committedActions) >= 2
  /\ committedActions[1].currentState = "destab"
  /\ currentWhState = "critical"

\* the hidden mass left after the first sub-action of the event of the last
\* roll, when that event's entry is the last of the ledger
AfterFirstSubAction ==
  committedActions[Len(committedActions) - 1].remainingMass - lastRoll.impacts[1]

\* C35: in game mode, after every player action and after every executed
\* sub-action of a random event, the state is gone exactly when the hidden
\* remaining mass is at most 0.
C35_GoneIffDepleted ==
  InGame =>
    /\ \A i \in PlayerEntries \cup EventEntries :
         committedActions[i].currentState = "gone"
           <=> committedActions[i].remainingMass <= 0
    /\ Len(committedActions) > 0 =>
         /\ currentWhState = LastEntry.currentState
         /\ remainingMass = LastEntry.remainingMass
    /\ (Len(committedActions) > 1 /\ LastEntry.type = "event") =>
         /\ Len(lastRoll.impacts) = LastEntry.actionsProcessed
         /\ LastEntry.actionsProcessed = 1 <=> AfterFirstSubAction <= 0

\* an event whose second sub-action used up the hidden mass: both sub-actions
\* ran, the state is gone and nothing is left
C35_Witness ==
  /\ InGame
  /\ Len(committedActions) > 1
  /\ LastEntry.type = "event"
  /\ LastEntry.actionsProcessed = 2
  /\ AfterFirstSubAction > 0
  /\ remainingMass <= 0
  /\ currentWhState = "gone"

\* the far-side ledger the actions of entry i should leave behind
ExpectedLedger(i) ==
  [k \in ShipKeys |->
     ExpectedCount(k, committedActions[i].actions, 1, FarSideBefore(i)[k])]

\* C36: in both modes the far-side ledger is updated for the acting ships
\* before the verdict is computed: the verdict of a collapsing player action
\* or gone commit is the one of the ledger that counts its ships, so that an
\* outbound typed ship that collapses the hole is a loss and an inbound
\* collapsing action that returns the last far-side ship is a win.
C36_LedgerUpdatedBeforeVerdict ==
  isTracking =>
    \A i \in PlayerEntries \cup BatchEntries :
      committedActions[i].currentState = "gone" =>
        LET e == committedActions[i]
            a == e.actions[Len(e.actions)]
        IN  /\ i = Len(committedActions)
            /\ completion = (IF FarSideCount(ExpectedLedger(i)) > 0
                             THEN "loss" ELSE "win")
            /\ (a.direction = "B" /\ a.ship.type # "none") => completion = "loss"
            /\ (/\ a.direction = "A" /\ a.ship.type # "none"
                /\ Len(e.actions) = 1
                /\ FarSideCount(FarSideBefore(i)) = 1
                /\ FarSideBefore(i)[a.ship.type] = 1) => completion = "win"

\* a game in which the only ship on the far side comes back and collapses the
\* hole on its way in: a win
C36_Witness ==
  /\ InGame
  /\ Len(committedActions) > 0
  /\ LastEntry.type = "action"
  /\ LastEntry.currentState = "gone"
  /\ LastEntry.actions[1].direction = "A"
  /\ LastEntry.actions[1].ship.type # "none"
  /\ FarSideCount(FarSideBefore(Len(committedActions))) = 1
  /\ FarSideBefore(Len(committedActions))[LastEntry.actions[1].ship.type] = 1
  /\ completion = "win"

\* the orders in which n staged actions can be queued
Orders(n) ==
  {f \in [1..n -> 1..n] : \A i, j \in 1..n : f[i] = f[j] => i = j}

\* the actions of a batch queued in another order
Reordered(actions, f) == [i \in 1..Len(actions) |-> actions[f[i]]]

\* C37: the interval a tracker commit yields depends only on the multiset of
\* the staged actions and on the declared state, not on the order in which
\* the actions were staged: the raw fold of every reordering of the batch,
\* clamped to the boundaries of the state of the commit, is the committed
\* interval.
C37_CommitOrderIndependent ==
  (isTracking /\ currentMode = "tracker") =>
    \A i \in BatchEntries :
      LET e == committedActions[i]
      IN  \A f \in Orders(Len(e.actions)) :
            ClampToBoundaries(
              FoldRaw(Reordered(e.actions, f), 1, RangeBefore(i)),
              getStateBoundaries(initialWhSize, e.currentState)) = e.finalMass

\* a commit of a custom mass wider than the display range together with a
\* battleship of unknown mass, staged in that order
C37_Witness ==
  /\ isTracking /\ currentMode = "tracker"
  /\ Len(committedActions) > 0
  /\ LastEntry.type = "batch"
  /\ Len(LastEntry.actions) = 2
  /\ LastEntry.actions[1].ship = CustomMass(1200)
  /\ LastEntry.actions[2].ship = Ship("bs", "unknown")
  /\ RangeBefore(Len(committedActions)).max
       - RangeBefore(Len(committedActions)).min < 1200

\* the last player action triggered events and the restriction filter
\* discarded all of them
AllDiscarded ==
  /\ InGame
  /\ Len(committedActions) > 0
  /\ lastRoll.triggered # {}
  /\ lastRoll.valid = {}

\* C38: when events are triggered after a player action but the restriction
\* filter discards all of them, no event is executed, randomEventOccurred
\* stays false and no ledger entry is added for an event; a later player
\* action that leaves the wormhole open still has its rolls looked at, and
\* one of them that passes the filter is executed as the one event of the
\* session.
C38_DiscardedEventsLeaveNoTrace ==
  /\ [](AllDiscarded =>
          /\ lastRoll.executed = "none"
          /\ ~randomEventOccurred
          /\ LastEntry.type = "action"
          /\ EventEntries = {})
  /\ [][ (AllDiscarded /\ isTracking'
            /\ Len(committedActions') > Len(committedActions)) =>
           LET e == committedActions'[Len(committedActions) + 1]
           IN  /\ e.type = "action"
               /\ e.remainingMass > 0 => lastRoll'.triggered = lastRoll'.rolled
               /\ lastRoll'.valid # {} =>
                    /\ lastRoll'.executed \in lastRoll'.valid
                    /\ randomEventOccurred'
                    /\ Len(committedActions') = Len(committedActions) + 2
                    /\ committedActions'[Len(committedActions) + 2].type = "event"
       ]_vars

\* a game behind a restriction that lets cruisers but no carriers through, in
\* which only the carrier event was triggered: it was discarded, the flag is
\* still false and the wormhole is open for a later action
C38_Witness ==
  /\ AllDiscarded
  /\ initialWhRestriction = 3
  /\ lastRoll.triggered = {"neutral_carrier_jump"}
  /\ ~randomEventOccurred
  /\ remainingMass > 0
  /\ addActionRowShown
  /\ LastEntry.type = "action"

\* the typed ships among the actions of an entry
TypedActions(actions) ==
  SelectSeq(actions, LAMBDA a : a.ship.type # "none")

\* C39: a custom-mass action never changes the far-side ledger, in either
\* mode and in either direction: the ledger after a player action or a
\* committed batch is the one its typed ships alone leave behind, and it is
\* the ledger of before when all its actions are custom masses; in game mode
\* the custom mass is taken off the hidden mass.
C39_CustomMassLeavesLedger ==
  isTracking =>
    \A i \in PlayerEntries \cup BatchEntries :
      LET e == committedActions[i]
      IN  /\ \A k \in ShipKeys :
               e.shipsOnFarSide[k] =
                 ExpectedCount(k, TypedActions(e.actions), 1, FarSideBefore(i)[k])
          /\ TypedActions(e.actions) = << >> =>
               e.shipsOnFarSide = FarSideBefore(i)
          /\ (e.type = "action" /\ e.actions[1].ship.type = "none") =>
               /\ e.actualMassUsed = e.actions[1].ship.mass
               /\ i > 1 => e.remainingMass =
                             committedActions[i - 1].remainingMass
                               - e.actions[1].ship.mass

\* a game in which a battleship went out and a custom mass of 1200 Gg went
\* out after it: the ledger still holds the one battleship and the hidden
\* mass went down by 1200
C39_Witness ==
  /\ InGame
  /\ Len(committedActions) >= 2
  /\ LastEntry.type = "action"
  /\ LastEntry.actions = << Action(CustomMass(1200), "B") >>
  /\ FarSideBefore(Len(committedActions))["bs"] = 1
  /\ shipsOnFarSide["bs"] = 1
  /\ FarSideCount(shipsOnFarSide) = 1
  /\ remainingMass = committedActions[Len(committedActions) - 1].remainingMass - 1200

\* C40: executing a random event never changes the far-side ledger: the
\* snapshot recorded in the event's entry is the ledger as the preceding
\* player action left it, the ledger after the event is that snapshot, and
\* the verdict of an event that collapses the wormhole is the one of that
\* unchanged ledger.
C40_EventLeavesLedger ==
  InGame =>
    \A i \in EventEntries :
      LET e == committedActions[i]
      IN  /\ i > 1
          /\ committedActions[i - 1].type = "action"
          /\ e.shipsOnFarSide = committedActions[i - 1].shipsOnFarSide
          /\ i = Len(committedActions) => shipsOnFarSide = e.shipsOnFarSide
          /\ e.currentState = "gone" =>
               /\ i = Len(committedActions)
               /\ completion =
                    (IF FarSideCount(committedActions[i - 1].shipsOnFarSide) > 0
                     THEN "loss" ELSE "win")

\* a battleship went out, and the event that followed collapsed the wormhole
\* at its outbound jump: the ledger holds the battleship alone and the
\* verdict is a loss
C40_Witness ==
  /\ InGame
  /\ Len(committedActions) >= 2
  /\ LastEntry.type = "event"
  /\ LastEntry.currentState = "gone"
  /\ LastEntry.actionsProcessed = 1
  /\ committedActions[Len(committedActions) - 1].actions[1].direction = "B"
  /\ committedActions[Len(committedActions) - 1].shipsOnFarSide["bs"] = 1
  /\ shipsOnFarSide["bs"] = 1
  /\ FarSideCount(shipsOnFarSide) = 1
  /\ completion = "loss"

====
